---- MODULE Spec2Model ----
(***************************************************************************)
(* A model of the dashboard runtime: the reactive store                    *)
(* (src/js/core/StateManager.js), the event channel it mirrors its         *)
(* changes on (the EventBus module, src/unnamed/part_003) and the module   *)
(* registry (src/js/core/ModuleRegistry.js).                               *)
(*                                                                         *)
(* Strings.  A dot-delimited path string is represented by the sequence    *)
(* of its segments: String.split('.') and Array.join('.') are inverse      *)
(* bijections between strings and non-empty sequences of dot-free          *)
(* segments, so 'agent.avatar' is <<"agent", "avatar">>, '*' is <<"*">>    *)
(* and the template string `state:${p}` is <<"state:">> \o p.              *)
(*                                                                         *)
(* Trees.  The state tree is a function from the modelled paths to the     *)
(* kind of value stored there: "absent" (no such key), "undef" (the key    *)
(* exists and holds undefined), "null", "map" (an object) or a scalar.     *)
(* A JavaScript value is a record [kind, sub]: its kind and, for an        *)
(* object, the cells beneath it.                                           *)
(*                                                                         *)
(* Async calls.  A call of the registry's init or initAll is a stack of    *)
(* frames, the callee above its caller; a step of the model runs the top   *)
(* frame from one await to the next, the calls it makes included, since an *)
(* async function runs synchronously up to its first await.                *)
(***************************************************************************)
EXTENDS Integers, Sequences, FiniteSets, TLC

\* ------------------------------------------------------------------ bounds

\* this.maxHistoryLength (StateManager.js:46 sets 50), scaled down so that a
\* full stack is reached within MaxOps operations.
MaxHistoryLength == 2

\* Writes (set, batchUpdate) and, separately, moves (undo, redo, reset) per run.
MaxOps == 2

\* Mutating store operations per run of the notification specification.
MaxNotifyOps == 1

\* Store subscriptions made per run.
MaxSubs == 3

\* Event-channel registrations (on, once) made per run.
MaxBusSubs == 3

\* emit calls per run.
MaxEmits == 2

\* Entries of one batchUpdate.
MaxBatch == 2

\* Nested calls the call stack holds; one more throws a RangeError.
MaxStack == 3

\* Lifecycle calls (init, initAll, destroyAll) per run.
MaxRuns == 2

\* Store subscriptions and, separately, event-channel registrations per run
\* of the storage specification.
MaxWatchers == 1

\* Store subscriptions and, separately, event-channel registrations per run of
\* the cascade specification.
MaxPairs == 2

\* ------------------------------------------------------------ paths, values

\* The modelled part of the tree of getInitialState(): agent.avatar is null
\* there, ui.theme is 'dark'.
PathSet ==
    { <<"agent">>, <<"agent", "avatar">>, <<"agent", "avatar", "url">>,
      <<"ui">>, <<"ui", "theme">> }

\* The wildcard key '*'.
Wild == <<"*">>

\* Keys of this.subscribers.
SubKeys == PathSet \cup {Wild}

Scalars == {"dark"}

IsStrictPrefix(p, q) == Len(p) < Len(q) /\ SubSeq(q, 1, Len(p)) = p

NoSub == [p \in PathSet |-> "absent"]

Undefined == [kind |-> "undef", sub |-> NoSub]

Null == [kind |-> "null", sub |-> NoSub]

EmptyObject == [kind |-> "map", sub |-> NoSub]

ScalarValue(s) == [kind |-> s, sub |-> NoSub]

\* The values callers write.
Values == {Undefined, Null, EmptyObject} \cup {ScalarValue(s) : s \in Scalars}

\* this.state as a value: the root object.
RootValue(t) == [kind |-> "map", sub |-> t]

\* value[key] for the value held at the parent of p: the member at p.
Member(value, p) ==
    IF value.kind = "map" /\ p \in PathSet /\ value.sub[p] # "absent"
    THEN [kind |-> value.sub[p],
          sub |-> [q \in PathSet |-> IF IsStrictPrefix(p, q) THEN value.sub[q] ELSE "absent"]]
    ELSE Undefined

getInitialState ==
    [p \in PathSet |->
        CASE p = <<"agent">> -> "map"
          [] p = <<"agent", "avatar">> -> "null"
          [] p = <<"ui">> -> "map"
          [] p = <<"ui", "theme">> -> "dark"
          [] OTHER -> "absent"]

\* JSON.parse(JSON.stringify(obj)): a key holding undefined is dropped.
deepClone(t) == [p \in PathSet |-> IF t[p] = "undef" THEN "absent" ELSE t[p]]

\* get(path, defaultValue): the loop of lines 144-149 from key i on, `value`
\* being the value reached so far.
RECURSIVE GetWalk(_, _, _, _)
GetWalk(keys, i, value, defaultValue) ==
    IF i > Len(keys)
    THEN IF value.kind # "undef" THEN value ELSE defaultValue
    ELSE IF value.kind \in {"null", "undef"}
         THEN defaultValue
         ELSE GetWalk(keys, i + 1, Member(value, SubSeq(keys, 1, i)), defaultValue)

get(t, path, defaultValue) == GetWalk(path, 1, RootValue(t), defaultValue)

\* getState(): a deep copy of the tree.
getState(t) == deepClone(t)

\* ------------------------------------------------------------- callbacks

\* Callback functions handed to subscribe / on / once; "g" throws when called.
Callbacks == {"f", "g"}

Throws(cb) == cb = "g"

Contains(list, e) == \E i \in 1..Len(list) : list[i] = e

Remove(list, e) == SelectSeq(list, LAMBDA x : x # e)

\* Set.prototype.add: insertion order, no duplicates.
SetAdd(list, e) == IF Contains(list, e) THEN list ELSE Append(list, e)

\* --------------------------------------------------------- event channel

UserTopics == {<<"foo">>, <<"bar">>, Wild}

\* `state:${changedPath}`
StateTopic(path) == <<"state:">> \o path

AllTopics == UserTopics \cup {StateTopic(p) : p \in SubKeys}

\* Payloads of emit: a collaborator's payload, or the store's
\* { newValue, oldValue, path }.
UserPayload(tag) == [tag |-> tag, newValue |-> Undefined, oldValue |-> Undefined, path |-> <<>>]

StatePayload(newValue, oldValue, path) ==
    [tag |-> "state", newValue |-> newValue, oldValue |-> oldValue, path |-> path]

NoPayload == UserPayload("none")

Payloads == {UserPayload("p1")}

\* An entry of events.get(topic): the callback itself (w = 0) or the w-th
\* wrapper that once() built around it.
Plain(cb) == [cb |-> cb, w |-> 0]

\* The slot a deleted entry leaves in the entry list of a Set while the Set
\* is being iterated (ECMAScript Set.prototype.delete): forEach steps over
\* it.  No operation can tell a Set with such slots from one without.
Empty == [cb |-> "empty", w |-> 0]

\* The entries of a Set, slots dropped.
Compact(list) == SelectSeq(list, LAMBDA x : x # Empty)

\* One invocation of a callback, as the callback sees it.
StoreCall(key, cb, newValue, oldValue, changedPath, m) ==
    [src |-> "store", key |-> key, cb |-> cb, new |-> newValue, old |-> oldValue,
     path |-> changedPath, payload |-> NoPayload, wrapped |-> FALSE, w |-> 0,
     seen |-> m.state, pass |-> m.passes, depth |-> m.depth,
     live |-> Contains(m.subscribers[key], cb), threw |-> Throws(cb)]

\* depth: the number of emits running around the one that makes the call;
\* live: whether the entry is still registered on `key` when its callback
\* starts.
BusCall(key, entry, event, payload, wrapped, m) ==
    [src |-> "bus", key |-> key, cb |-> entry.cb, new |-> Undefined, old |-> Undefined,
     path |-> event, payload |-> payload, wrapped |-> wrapped, w |-> entry.w,
     seen |-> m.state, pass |-> m.passes, depth |-> m.depth,
     live |-> Contains(m.events[key], entry), threw |-> Throws(entry.cb)]

\* Set.prototype.delete: the entry's slot is emptied.
Delete(list, e) == [i \in DOMAIN list |-> IF list[i] = e THEN Empty ELSE list[i]]

\* off(event, callback)
off(events, event, entry) == [events EXCEPT ![event] = Delete(@, entry)]

\* on(event, callback)
on(events, event, entry) == [events EXCEPT ![event] = SetAdd(@, entry)]

\* clear(event): one topic, or every topic when the argument is omitted
\* (all = TRUE).
clear(events, event, all) ==
    IF all THEN [t \in AllTopics |-> <<>>] ELSE [events EXCEPT ![event] = <<>>]

\* The topic and payload of the re-entrant publish, and the callback the
\* re-entrant registrations add.
InnerTopic == <<"foo">>

InnerPayload == UserPayload("p2")

Late == "h"

RECURSIVE emit(_, _, _)

\* What a callback does when called, after its call is logged.  Four
\* callbacks call back into the event channel: "pub" publishes on
\* InnerTopic, "sub" registers Late on InnerTopic, "subw" registers Late on
\* '*', "unsub" calls the function that on('*', f) returned; "f", "g" and
\* Late touch nothing.  A publish that the call stack has no room for
\* throws, and the try around the callback catches it.
Body(m, cb) ==
    CASE cb = "pub" ->
            IF m.depth >= MaxStack THEN m
            ELSE [emit([m EXCEPT !.depth = @ + 1], InnerTopic, InnerPayload)
                    EXCEPT !.depth = m.depth]
      [] cb = "sub" -> [m EXCEPT !.events = on(@, InnerTopic, Plain(Late))]
      [] cb = "subw" -> [m EXCEPT !.events = on(@, Wild, Plain(Late))]
      [] cb = "unsub" -> [m EXCEPT !.events = off(@, Wild, Plain("f"))]
      [] OTHER -> m

\* A call of emit without the try: the throw leaves emit.
tryHandlerRethrows(m, call) ==
    [m EXCEPT !.calls = Append(@, call), !.threw = call.threw]

\* A try { callback(...) } catch of emit (lines 72-76): the call is made and
\* a throw of the callback is caught.
tryHandler(m, call) == Body([m EXCEPT !.calls = Append(@, call)], call.cb)

\* once() without the off of its wrapper (line 47).
onceWrapperStays(m, key, e) == m

\* The wrapper once() builds (lines 46-49), before it calls its callback:
\* it removes itself.  A plain callback (w = 0) has no wrapper.
onceWrapper(m, key, e) ==
    IF e.w > 0 THEN [m EXCEPT !.events = off(@, key, e)] ELSE m

\* One forEach of emit (lines 71-77, 82-88) over the Set registered on `key`,
\* from slot i on.  Set.prototype.forEach reads the Set as it goes: an entry
\* deleted before its turn is stepped over, and an entry added during the
\* pass is reached by it.
RECURSIVE EmitEach(_, _, _, _, _, _)
EmitEach(m, key, i, event, payload, wrapped) ==
    IF m.threw \/ i > Len(m.events[key]) THEN m
    ELSE IF m.events[key][i] = Empty
         THEN EmitEach(m, key, i + 1, event, payload, wrapped)
         ELSE LET e == m.events[key][i]
                  m1 == onceWrapper(m, key, e)
                  m2 == tryHandler(m1, BusCall(key, e, event, payload, wrapped, m1))
              IN EmitEach(m2, key, i + 1, event, payload, wrapped)

\* The second pass of emit: the callbacks on '*' get { event, data }.
EmitWildcard(m, event, payload) == EmitEach(m, Wild, 1, event, payload, TRUE)

\* The first pass of emit: the callbacks on the topic get data.
EmitExact(m, event, payload) == EmitEach(m, event, 1, event, payload, FALSE)

\* emit with the second pass in an else branch of the first.
emitElseWildcard(m, event, payload) ==
    IF m.events[event] # <<>> THEN EmitExact(m, event, payload)
    ELSE EmitWildcard(m, event, payload)

\* emit(event, data)
emit(m, event, payload) == EmitWildcard(EmitExact(m, event, payload), event, payload)

\* ------------------------------------------------------------------ store

RECURSIVE set(_, _, _, _, _)

\* The function subscribe returns: this.subscribers.get(path).delete(callback)
unsubscribe(subs, path, callback) == [subs EXCEPT ![path] = Remove(@, callback)]

\* The write a subscriber makes from inside its call.
InnerPath == <<"ui", "theme">>

InnerValue == EmptyObject

\* What a subscriber does when called, after its call is logged.  Two
\* subscribers call back into the store: "drop" calls the function that
\* subscribe('*', f) returned, "write" calls set(InnerPath, InnerValue,
\* false); "f" and "g" touch nothing.  A throw of the inner set is a throw of
\* the subscriber.
SubscriberBody(m, cb) ==
    CASE cb = "drop" -> [m EXCEPT !.subscribers = unsubscribe(@, Wild, "f")]
      [] cb = "write" -> [set(m, InnerPath, InnerValue, FALSE, FALSE) EXCEPT !.threw = FALSE]
      [] OTHER -> m

\* A call of a subscriber without the try: the throw leaves notifySubscribers.
trySubscriberRethrows(m, call) ==
    [SubscriberBody([m EXCEPT !.calls = Append(@, call)], call.cb)
        EXCEPT !.threw = call.threw]

\* A try { callback(...) } catch of notifySubscribers (lines 237-241,
\* 252-256, 264-268): the call is made and a throw of the callback is caught.
trySubscriber(m, call) == SubscriberBody([m EXCEPT !.calls = Append(@, call)], call.cb)

\* The value held at path p of tree t (the root object for the empty path).
ValueAt(t, p) ==
    IF p = <<>> THEN RootValue(t)
    ELSE [kind |-> IF t[p] = "absent" THEN "undef" ELSE t[p],
          sub |-> [q \in PathSet |-> IF IsStrictPrefix(p, q) THEN t[q] ELSE "absent"]]

\* target[lastKey] = value: the value replaces whatever was at the path.
WriteAt(t, path, value) ==
    [q \in PathSet |->
        IF q = path THEN value.kind
        ELSE IF IsStrictPrefix(path, q) THEN value.sub[q] ELSE t[q]]

IsObject(t, p) == p = <<>> \/ t[p] = "map"

\* The loop of set, lines 168-173, from intermediate key i on.  `key in
\* target` throws a TypeError when target is not an object.
RECURSIVE SetDescend(_, _, _)
SetDescend(t, keys, i) ==
    IF i > Len(keys) - 1 THEN [tree |-> t, threw |-> FALSE]
    ELSE LET target == SubSeq(keys, 1, i - 1)
             next == SubSeq(keys, 1, i)
         IN IF ~IsObject(t, target) THEN [tree |-> t, threw |-> TRUE]
            ELSE IF t[next] = "absent"
                 THEN SetDescend([t EXCEPT ![next] = "map"], keys, i + 1)
                 ELSE SetDescend(t, keys, i + 1)

\* const oldValue = target[lastKey] (line 175).
SetOldValue(t, path) == Member(ValueAt(t, SubSeq(path, 1, Len(path) - 1)), path)

\* recordHistory without the slice of lines 282-284.
recordHistoryKeepsFuture(m, oldState) ==
    LET pushed == Append(m.history, oldState)
        index == m.historyIndex + 1
    IN IF Len(pushed) > MaxHistoryLength
       THEN [m EXCEPT !.history = Tail(pushed), !.historyIndex = index - 1,
                      !.taken = Tail(pushed)]
       ELSE [m EXCEPT !.history = pushed, !.historyIndex = index, !.taken = pushed]

\* recordHistory without the limit of lines 290-293.
recordHistoryUnbounded(m, oldState) ==
    LET cut == IF m.historyIndex < Len(m.history) - 1
               THEN SubSeq(m.history, 1, m.historyIndex + 1)
               ELSE m.history
    IN [m EXCEPT !.history = Append(cut, oldState), !.historyIndex = @ + 1,
                 !.taken = Append(cut, oldState)]

\* recordHistory(oldState), oldState being an object of its own.  The copies
\* kept of the entries follow the stack, and so does the place of the entry
\* that this.state refers to, until that entry leaves the stack.
recordHistory(m, oldState) ==
    LET cut == IF m.historyIndex < Len(m.history) - 1
               THEN SubSeq(m.history, 1, m.historyIndex + 1)
               ELSE m.history
        pushed == Append(cut, oldState)
        index == m.historyIndex + 1
        taken == Append(SubSeq(m.taken, 1, Len(cut)), oldState)
        alias == IF m.alias > Len(cut) THEN 0 ELSE m.alias
    IN IF Len(pushed) > MaxHistoryLength
       THEN [m EXCEPT !.history = Tail(pushed), !.historyIndex = index - 1,
                      !.taken = Tail(taken), !.alias = IF alias > 0 THEN alias - 1 ELSE 0]
       ELSE [m EXCEPT !.history = pushed, !.historyIndex = index,
                      !.taken = taken, !.alias = alias]

\* The empty slot of localStorage.
NoSlot == [saved |-> FALSE, ui |-> Undefined]

\* JSON.stringify of a value: keys holding undefined are dropped.
Serialize(value) ==
    [kind |-> value.kind,
     sub |-> [q \in PathSet |-> IF value.sub[q] = "undef" THEN "absent" ELSE value.sub[q]]]

\* loadPersistedState(), lines 99-115, on the tree t of getInitialState():
\* the keys of a saved ui object replace those of t's; `fail` is getItem or
\* JSON.parse throwing, which is caught.  Nothing modelled is saved of config.
loadPersistedState(t, slot, fail) ==
    IF fail \/ ~slot.saved \/ slot.ui.kind # "map" THEN t
    ELSE [q \in PathSet |->
            IF IsStrictPrefix(<<"ui">>, q) /\ slot.ui.sub[SubSeq(q, 1, 2)] # "absent"
            THEN slot.ui.sub[q] ELSE t[q]]

\* persistState(): `fail` is the slot refusing the write; the throw is caught.
persistState(m, fail) ==
    IF fail THEN [m EXCEPT !.persists = @ + 1]
    ELSE [m EXCEPT !.persists = @ + 1,
                   !.storage = [saved |-> TRUE,
                                ui |-> Serialize(ValueAt(m.state, <<"ui">>))]]

\* A forEach over a copy of the Set made when the pass starts: a callback
\* removed during the pass is still called.
RECURSIVE NotifyEachCopied(_, _, _, _, _, _, _)
NotifyEachCopied(m, key, list, i, newValue, oldValue, changedPath) ==
    IF m.threw \/ i > Len(list) THEN m
    ELSE NotifyEachCopied(
             trySubscriber(m, StoreCall(key, list[i], newValue, oldValue, changedPath, m)),
             key, list, i + 1, newValue, oldValue, changedPath)

\* One forEach of notifySubscribers over the callbacks subscribed on `key`,
\* from entry i of the list on: `list` is the Set as the pass found it, and
\* an entry deleted since is stepped over (Set.prototype.forEach).  No
\* subscriber modelled adds an entry during a pass.
RECURSIVE NotifyEach(_, _, _, _, _, _, _)
NotifyEach(m, key, list, i, newValue, oldValue, changedPath) ==
    IF m.threw \/ i > Len(list) THEN m
    ELSE IF ~Contains(m.subscribers[key], list[i])
         THEN NotifyEach(m, key, list, i + 1, newValue, oldValue, changedPath)
         ELSE NotifyEach(
                  trySubscriber(m, StoreCall(key, list[i], newValue, oldValue, changedPath, m)),
                  key, list, i + 1, newValue, oldValue, changedPath)

\* The exact subscribers called with the two values in the wrong order.
NotifyExactSwapped(m, changedPath, newValue, oldValue) ==
    NotifyEach(m, changedPath, m.subscribers[changedPath], 1, oldValue, newValue, changedPath)

\* Lines 235-243: the subscribers of changedPath itself.
NotifyExact(m, changedPath, newValue, oldValue) ==
    NotifyEach(m, changedPath, m.subscribers[changedPath], 1, newValue, oldValue, changedPath)

\* The parent loop run upwards, for (j = 0; j <= i; j++): the top-level
\* segment first.
RECURSIVE NotifyParentsUp(_, _, _, _)
NotifyParentsUp(m, changedPath, j, i) ==
    IF m.threw \/ j > i THEN m
    ELSE LET parentPath == SubSeq(changedPath, 1, j)
         IN IF parentPath # <<>> /\ parentPath \in SubKeys
            THEN NotifyParentsUp(
                     NotifyEach(m, parentPath, m.subscribers[parentPath], 1,
                                get(m.state, parentPath, Undefined), Undefined, changedPath),
                     changedPath, j + 1, i)
            ELSE NotifyParentsUp(m, changedPath, j + 1, i)

NotifyParentsRootFirst(m, changedPath, i) == NotifyParentsUp(m, changedPath, 0, i)

\* Lines 246-259: for (i = parts.length - 1; i >= 0; i--), from index i on;
\* the empty parent path (i = 0) is skipped.
RECURSIVE NotifyParents(_, _, _)
NotifyParents(m, changedPath, i) ==
    IF m.threw \/ i < 0 THEN m
    ELSE LET parentPath == SubSeq(changedPath, 1, i)
         IN IF parentPath # <<>> /\ parentPath \in SubKeys
            THEN NotifyParents(
                     NotifyEach(m, parentPath, m.subscribers[parentPath], 1,
                                get(m.state, parentPath, Undefined), Undefined, changedPath),
                     changedPath, i - 1)
            ELSE NotifyParents(m, changedPath, i - 1)

\* Lines 262-270: the subscribers of '*' get the tree itself.
NotifyWildcard(m, changedPath, oldValue) ==
    NotifyEach(m, Wild, m.subscribers[Wild], 1, RootValue(m.state), oldValue, changedPath)

\* notifySubscribers without the emit of line 273.
notifySubscribersQuiet(m, changedPath, newValue, oldValue) ==
    LET m0 == [m EXCEPT !.passes = @ + 1]
        m1 == NotifyExact(m0, changedPath, newValue, oldValue)
        m2 == NotifyParents(m1, changedPath, Len(changedPath) - 1)
    IN NotifyWildcard(m2, changedPath, oldValue)

\* notifySubscribers(changedPath, newValue, oldValue)
notifySubscribers(m, changedPath, newValue, oldValue) ==
    LET m0 == [m EXCEPT !.passes = @ + 1]
        m1 == NotifyExact(m0, changedPath, newValue, oldValue)
        m2 == NotifyParents(m1, changedPath, Len(changedPath) - 1)
        m3 == NotifyWildcard(m2, changedPath, oldValue)
    IN IF m3.threw THEN m3
       ELSE emit(m3, StateTopic(changedPath), StatePayload(newValue, oldValue, changedPath))

\* The object this.state refers to is written in place and becomes t: an
\* entry of this.history that is the same object changes with it.
InPlace(m, t) ==
    [m EXCEPT !.state = t,
              !.history = IF m.alias > 0 THEN [@ EXCEPT ![m.alias] = t] ELSE @]

\* set with `const oldState = this.state`: the object pushed on the history
\* is the live tree itself.
setSharesSnapshot(m, path, value, notify, fail) ==
    LET d == SetDescend(m.state, path, 1)
        target == SubSeq(path, 1, Len(path) - 1)
    IN IF d.threw \/ ~IsObject(d.tree, target)
       THEN [InPlace(m, d.tree) EXCEPT !.threw = TRUE]
       ELSE LET oldValue == SetOldValue(d.tree, path)
                m1 == InPlace(m, WriteAt(d.tree, path, value))
                r == recordHistory(m1, m1.state)
                m2 == persistState([r EXCEPT !.alias = r.historyIndex + 1], fail)
            IN IF notify THEN notifySubscribers(m2, path, value, oldValue) ELSE m2

\* set(path, value, notify).  The module is strict code, so assigning a
\* property of a primitive throws like reading a property of null does.
set(m, path, value, notify, fail) ==
    LET oldState == deepClone(m.state)
        d == SetDescend(m.state, path, 1)
        target == SubSeq(path, 1, Len(path) - 1)
    IN IF d.threw \/ ~IsObject(d.tree, target)
       THEN [InPlace(m, d.tree) EXCEPT !.threw = TRUE]
       ELSE LET oldValue == SetOldValue(d.tree, path)
                m1 == InPlace(m, WriteAt(d.tree, path, value))
                m2 == persistState(recordHistory(m1, oldState), fail)
            IN IF notify THEN notifySubscribers(m2, path, value, oldValue) ELSE m2

\* batchUpdate calling set(path, value) with notify left at its default.
BatchSetNotifies == TRUE

\* The notify argument batchUpdate passes to set (line 198).
BatchSetNotify == FALSE

\* The first loop of batchUpdate (lines 197-199) from entry i on.
RECURSIVE BatchWrite(_, _, _, _)
BatchWrite(m, updates, i, fail) ==
    IF m.threw \/ i > Len(updates) THEN m
    ELSE BatchWrite(set(m, updates[i].path, updates[i].value, BatchSetNotify, fail),
                    updates, i + 1, fail)

\* The second loop of batchUpdate (lines 205-207) from entry i on.
RECURSIVE BatchNotify(_, _, _)
BatchNotify(m, updates, i) ==
    IF m.threw \/ i > Len(updates) THEN m
    ELSE BatchNotify(
             notifySubscribers(m, updates[i].path, updates[i].value,
                               get(m.state, updates[i].path, Undefined)),
             updates, i + 1)

\* batchUpdate(updates): the entries in Object.entries order.
batchUpdate(m, updates, fail) ==
    LET oldState == deepClone(m.state)
        m1 == BatchWrite(m, updates, 1, fail)
    IN IF m1.threw THEN m1
       ELSE BatchNotify(persistState(recordHistory(m1, oldState), fail), updates, 1)

\* undo without the decrement of line 306.
undoKeepsIndex(m) ==
    IF m.historyIndex < 0 THEN [m EXCEPT !.ret = FALSE]
    ELSE LET previousState == m.history[m.historyIndex + 1]
             m1 == [m EXCEPT !.state = deepClone(previousState)]
         IN [notifySubscribers(m1, Wild, RootValue(m1.state), Null) EXCEPT !.ret = TRUE]

\* undo with the guard of lines 301-303 behind the notification.
undoNotifiesFirst(m) ==
    IF m.historyIndex < 0
    THEN [notifySubscribers(m, Wild, RootValue(m.state), Null) EXCEPT !.ret = FALSE]
    ELSE LET previousState == m.history[m.historyIndex + 1]
             m1 == [m EXCEPT !.historyIndex = @ - 1, !.state = deepClone(previousState)]
         IN [notifySubscribers(m1, Wild, RootValue(m1.state), Null) EXCEPT !.ret = TRUE]

\* undo(): this.state becomes a new object, the clone.
undo(m) ==
    IF m.historyIndex < 0 THEN [m EXCEPT !.ret = FALSE]
    ELSE LET previousState == m.history[m.historyIndex + 1]
             m1 == [m EXCEPT !.historyIndex = @ - 1, !.state = deepClone(previousState),
                             !.alias = 0]
         IN [notifySubscribers(m1, Wild, RootValue(m1.state), Null) EXCEPT !.ret = TRUE]

\* redo notifying the subscribers of a path the snapshot changed, as a write
\* to it would.
redoNotifiesPath(m) ==
    IF m.historyIndex >= Len(m.history) - 1 THEN [m EXCEPT !.ret = FALSE]
    ELSE LET nextState == m.history[m.historyIndex + 2]
             m1 == [m EXCEPT !.historyIndex = @ + 1, !.state = deepClone(nextState)]
             changed == <<"ui", "theme">>
         IN [notifySubscribers(m1, changed, ValueAt(m1.state, changed), Null)
                EXCEPT !.ret = TRUE]

\* redo(): this.state becomes a new object, the clone.
redo(m) ==
    IF m.historyIndex >= Len(m.history) - 1 THEN [m EXCEPT !.ret = FALSE]
    ELSE LET nextState == m.history[m.historyIndex + 2]
             m1 == [m EXCEPT !.historyIndex = @ + 1, !.state = deepClone(nextState),
                             !.alias = 0]
         IN [notifySubscribers(m1, Wild, RootValue(m1.state), Null) EXCEPT !.ret = TRUE]

\* reset(): `fail` is localStorage.removeItem throwing, which nothing catches.
reset(m, fail) ==
    LET oldState == RootValue(m.state)
        m1 == [m EXCEPT !.state = getInitialState, !.history = <<>>, !.historyIndex = -1,
                        !.alias = 0, !.taken = <<>>]
    IN IF fail THEN [m1 EXCEPT !.threw = TRUE]
       ELSE notifySubscribers([m1 EXCEPT !.storage = NoSlot], Wild, RootValue(m1.state), oldState)

\* subscribe(path, callback)
subscribe(subs, path, callback) == [subs EXCEPT ![path] = SetAdd(@, callback)]

\* ------------------------------------------------------- module registry

\* Module ids.
Ids == {"A", "B", "C"}

\* The selectors document.querySelector finds an element for.
Document == {"#main"}

\* A module definition: how its constructor and its init, render and destroy
\* hooks behave: "none" (no such hook), "ok", or "throws".  An object
\* literal or a class; its instance has the hooks the definition has.  It
\* has no update hook unless Updatable gives it one.
Definition(ctor, initHook, renderHook, destroyHook) ==
    [ctor |-> ctor, init |-> initHook, render |-> renderHook, destroy |-> destroyHook,
     update |-> "none"]

\* The definition with an update hook.
Updatable(def, updateHook) == [def EXCEPT !.update = updateHook]

\* this.modules.get(id) for an id that is not registered.
NoDefinition == Definition("none", "none", "none", "none")

NoError == [kind |-> "none", id |-> "none"]

\* new Error(`ModuleRegistry: Module "${id}" not found`)
NotFound(id) == [kind |-> "notfound", id |-> id]

\* What the constructor or a hook of module id throws.
HookError(id, hook) == [kind |-> hook, id |-> id]

\* RangeError: Maximum call stack size exceeded.
RangeError == [kind |-> "range", id |-> "none"]

\* this.modules.has(id)
Registered(r, id) == r.modules[id] # NoDefinition

\* this.configs.get(id), for a registered id; configs is kept in the
\* insertion order of the Map.
getConfig(r, id) ==
    LET i == CHOOSE i \in DOMAIN r.configs : r.configs[i].id = id IN r.configs[i]

Has(list, e) == \E i \in DOMAIN list : list[i] = e

\* One entry of the lifecycle log: what happened to which module, the error
\* it carries, and the initialized set at that moment.
Event(r, ev, id, error) ==
    [ev |-> ev, id |-> id, error |-> error, initialized |-> r.initialized]

Log(r, ev, id, error) == [r EXCEPT !.trace = Append(@, Event(r, ev, id, error))]

\* register(id, definition, config), lines 62-79, for an id not registered
\* yet: config holds dependencies, enabled, priority and container as
\* normalised there.
register(r, id, definition, config) ==
    [r EXCEPT !.modules[id] = definition,
              !.configs = Append(@, [id |-> id, dependencies |-> config.dependencies,
                                     enabled |-> config.enabled, priority |-> config.priority,
                                     container |-> config.container])]

\* A running call of init(id) or initAll(): where it stands (pc), the
\* dependency or module it is at (k), initAll's sortedIds (order), and the
\* outcome of the promise it awaits (got, err).
InitFrame(id) ==
    [fn |-> "init", id |-> id, pc |-> "start", k |-> 1, order |-> <<>>,
     got |-> "none", err |-> NoError]

InitAllFrame ==
    [fn |-> "initAll", id |-> "none", pc |-> "start", k |-> 1, order |-> <<>>,
     got |-> "none", err |-> NoError]

Top(stack) == stack[Len(stack)]

Pop(stack) == SubSeq(stack, 1, Len(stack) - 1)

SetTop(r, f) == [r EXCEPT !.stack = Append(Pop(@), f)]

\* A call returns or throws: its promise settles.  The caller, if any, is
\* suspended in an await on that promise and learns the outcome when it is
\* resumed; without a caller the outcome is that of the whole call.
Settle(r, result, error) ==
    IF Len(r.stack) = 1
    THEN [r EXCEPT !.stack = <<>>, !.result = result, !.error = error]
    ELSE LET caller == r.stack[Len(r.stack) - 1]
         IN [r EXCEPT !.stack = Append(SubSeq(@, 1, Len(@) - 2),
                                       [caller EXCEPT !.got = result, !.err = error])]

\* Insertion of config c into a list sorted by (a, b) => b.priority -
\* a.priority: behind every entry of the same or a higher priority
\* (Array.prototype.sort is stable).
RECURSIVE SortedInsert(_, _)

\* The same insertion in front of the entries of the same priority.
SortedInsertFront(sorted, c) ==
    IF sorted = <<>> THEN <<c>>
    ELSE IF Head(sorted).priority > c.priority
         THEN <<Head(sorted)>> \o SortedInsert(Tail(sorted), c)
         ELSE <<c>> \o sorted

SortedInsert(sorted, c) ==
    IF sorted = <<>> THEN <<c>>
    ELSE IF Head(sorted).priority >= c.priority
         THEN <<Head(sorted)>> \o SortedInsert(Tail(sorted), c)
         ELSE <<c>> \o sorted

RECURSIVE SortByPriority(_)
SortByPriority(list) ==
    IF list = <<>> THEN <<>>
    ELSE SortedInsert(SortByPriority(SubSeq(list, 1, Len(list) - 1)), list[Len(list)])

\* sortedIds of initAll, lines 173-176.
sortedIds(r) ==
    LET enabled == SelectSeq(r.configs, LAMBDA c : c.enabled)
        sorted == SortByPriority(enabled)
    IN [i \in DOMAIN sorted |-> sorted[i].id]

\* init without the guard of lines 101-103.
alreadyInitializedNever(r, id) == FALSE

\* this.initialized.has(id), line 101.
alreadyInitialized(r, id) == Has(r.initialized, id)

\* init without the guard of lines 112-115.
disabledNever(r, id) == FALSE

\* !config.enabled, line 112.
disabled(r, id) == ~getConfig(r, id).enabled

\* init without the loop of lines 118-122.
needsInitNever(r, depId) == FALSE

\* !this.initialized.has(depId), line 119.
needsInit(r, depId) == ~Has(r.initialized, depId)

\* The catch of init, lines 153-157, without the publish of module:error.
initCatchSilent(r, id, error) == Settle(r, "rejected", error)

\* The catch of init, lines 153-157: module:error is published and the error
\* is thrown again.
initCatch(r, id, error) == Settle(Log(r, "error", id, error), "rejected", error)

\* Lines 150-152 of init: the module is marked, module:loaded is published.
initMark(r, id) ==
    LET r1 == [r EXCEPT !.initialized = SetAdd(@, id)]
    IN Settle(Log(r1, "loaded", id, NoError), "resolved", NoError)

\* The calls of init and initAll, run from the top frame of r.stack until
\* it suspends in an await or the stack is empty; depth is the number of
\* calls beneath it on the call stack.  An async call runs synchronously up
\* to its first await, so a call made by a frame runs within that frame's
\* step.
RECURSIVE Run(_, _)
Run(r, depth) ==
    IF r.stack = <<>> THEN r
    ELSE
    LET f == Top(r.stack)
        id == f.id
    IN
    CASE f.fn = "init" /\ f.pc = "start" ->
            \* lines 101-115
            IF alreadyInitialized(r, id) THEN Settle(r, "resolved", NoError)
            ELSE IF ~Registered(r, id) THEN Settle(r, "rejected", NotFound(id))
            ELSE IF disabled(r, id) THEN Settle(r, "resolved", NoError)
            ELSE Run(SetTop(r, [f EXCEPT !.pc = "deps"]), depth)
      [] f.fn = "init" /\ f.pc = "deps" ->
            \* lines 118-122; the call of line 120 is outside the try
            LET deps == getConfig(r, id).dependencies
            IN IF f.k > Len(deps) THEN Run(SetTop(r, [f EXCEPT !.pc = "create"]), depth)
               ELSE IF ~needsInit(r, deps[f.k])
                    THEN Run(SetTop(r, [f EXCEPT !.k = @ + 1]), depth)
               ELSE IF depth >= MaxStack THEN Settle(r, "rejected", RangeError)
               ELSE LET r1 == SetTop(r, [f EXCEPT !.pc = "awaitDep"])
                    IN Run([r1 EXCEPT !.stack = Append(@, InitFrame(deps[f.k]))], depth + 1)
      [] f.fn = "init" /\ f.pc = "afterDep" ->
            IF f.got = "rejected" THEN Settle(r, "rejected", f.err)
            ELSE Run(SetTop(r, [f EXCEPT !.pc = "deps", !.k = @ + 1, !.got = "none"]), depth)
      [] f.fn = "init" /\ f.pc = "create" ->
            \* lines 128-137
            LET def == r.modules[id]
            IN IF def.ctor = "throws" THEN initCatch(r, id, HookError(id, "ctor"))
               ELSE LET r1 == [r EXCEPT !.serial = @ + 1, !.instances[id] = r.serial + 1]
                        r2 == Log(r1, "create", id, NoError)
                    IN IF def.init = "none" THEN Run(SetTop(r2, [f EXCEPT !.pc = "render"]), depth)
                       ELSE IF def.init = "throws"
                            THEN initCatch(Log(r2, "init", id, NoError), id, HookError(id, "init"))
                       ELSE SetTop(Log(r2, "init", id, NoError), [f EXCEPT !.pc = "awaitInit"])
      [] f.fn = "init" /\ f.pc = "render" ->
            \* lines 140-148
            LET def == r.modules[id]
                container == getConfig(r, id).container
            IN IF def.render = "none" \/ container \notin Document
               THEN Run(SetTop(r, [f EXCEPT !.pc = "mark"]), depth)
               ELSE IF def.render = "throws"
                    THEN initCatch(Log(r, "render", id, NoError), id, HookError(id, "render"))
               ELSE SetTop(Log(r, "render", id, NoError), [f EXCEPT !.pc = "awaitRender"])
      [] f.fn = "init" /\ f.pc = "mark" -> initMark(r, id)
      [] f.fn = "initAll" /\ f.pc = "start" ->
            \* lines 165-176
            IF r.isInitializing THEN Settle(r, "resolved", NoError)
            ELSE Run(SetTop([r EXCEPT !.isInitializing = TRUE],
                            [f EXCEPT !.pc = "loop", !.order = sortedIds(r)]), depth)
      [] f.fn = "initAll" /\ f.pc = "loop" ->
            \* lines 178-187; a rejected init is caught
            IF f.k > Len(f.order)
            THEN Settle([r EXCEPT !.isInitializing = FALSE], "resolved", NoError)
            ELSE LET r1 == SetTop(Log(r, "call", f.order[f.k], NoError),
                                  [f EXCEPT !.pc = "awaitCall"])
                 IN Run([r1 EXCEPT !.stack = Append(@, InitFrame(f.order[f.k]))], depth + 1)
      [] OTHER -> r

\* initAll without the try of lines 179-183: a rejected init leaves the loop.
initAllThrows(r, f) ==
    IF f.got = "rejected" THEN Settle(r, "rejected", f.err)
    ELSE Run(SetTop(r, [f EXCEPT !.pc = "loop", !.k = @ + 1, !.got = "none"]), 0)

\* The await of line 180 settles: resolved or, caught by lines 181-183,
\* rejected, initAll goes on with the next id.
initAllNext(r, f) ==
    Run(SetTop(r, [f EXCEPT !.pc = "loop", !.k = @ + 1, !.got = "none"]), 0)

\* The frame on top of the stack can go on: the promise it awaits has
\* settled (a hook that did not throw, or the call it made).
Resumable(stack) ==
    /\ stack # <<>>
    /\ \/ Top(stack).fn = "init" /\ Top(stack).pc \in {"awaitInit", "awaitRender"}
       \/ Top(stack).got # "none"

\* The continuation of the await the top frame is suspended in.
Resume(r) ==
    LET f == Top(r.stack)
        pc == CASE f.pc = "awaitDep" -> "afterDep"
                [] f.pc = "awaitInit" -> "render"
                [] OTHER -> "mark"
    IN IF f.fn = "initAll" THEN initAllNext(r, f)
       ELSE Run(SetTop(r, [f EXCEPT !.pc = pc]), 0)

\* list(), lines 268-274.
list(r) ==
    [i \in DOMAIN r.configs |->
        [id |-> r.configs[i].id, config |-> r.configs[i],
         initialized |-> Has(r.initialized, r.configs[i].id)]]

\* get(id) of the registry, lines 218-220: the instance, 0 for undefined.
getInstance(r, id) == r.instances[id]

\* destroy taking down with the module those that list it as a dependency.
destroyCascades(r, id) ==
    LET def == r.modules[id]
        down == {id} \cup {r.configs[i].id : i \in {j \in DOMAIN r.configs :
                                                  Has(r.configs[j].dependencies, id)}}
    IN IF r.instances[id] # 0 /\ def.destroy = "throws"
       THEN [Log(r, "destroy", id, NoError) EXCEPT !.result = "rejected",
                                                    !.error = HookError(id, "destroy")]
       ELSE LET r1 == IF r.instances[id] # 0 /\ def.destroy = "ok"
                      THEN Log(r, "destroy", id, NoError) ELSE r
            IN [r1 EXCEPT !.initialized = SelectSeq(@, LAMBDA x : x \notin down),
                          !.instances = [x \in Ids |-> IF x \in down THEN 0 ELSE @[x]]]

\* destroy(id), lines 194-202.  A throw of the destroy hook leaves destroy
\* before anything is removed.
destroy(r, id) ==
    LET def == r.modules[id]
    IN IF r.instances[id] # 0 /\ def.destroy = "throws"
       THEN [Log(r, "destroy", id, NoError) EXCEPT !.result = "rejected",
                                                    !.error = HookError(id, "destroy")]
       ELSE LET r1 == IF r.instances[id] # 0 /\ def.destroy = "ok"
                      THEN Log(r, "destroy", id, NoError) ELSE r
            IN [r1 EXCEPT !.initialized = Remove(@, id), !.instances[id] = 0]

\* destroyAll, lines 207-211: the for-of over this.initialized, from which
\* destroy removes the id it is at; a throw of destroy leaves the loop.
RECURSIVE destroyAll(_)
destroyAll(r) ==
    IF r.initialized = <<>> \/ r.result = "rejected" THEN r
    ELSE LET r1 == destroy(r, Head(r.initialized))
         IN IF r1.result = "rejected" THEN r1 ELSE destroyAll(r1)

\* updateConfig(id, {enabled}), lines 236-247: the config object is patched
\* in place, then the update hook of the instance in the table, if it has
\* one, is called; a throw of the hook leaves updateConfig.
updateConfig(r, id, enabled) ==
    IF ~Registered(r, id) THEN r
    ELSE LET r1 == [r EXCEPT !.configs =
                        [i \in DOMAIN @ |-> IF @[i].id = id
                                            THEN [@[i] EXCEPT !.enabled = enabled]
                                            ELSE @[i]]]
             hook == IF r.instances[id] # 0 THEN r.modules[id].update ELSE "none"
         IN CASE hook = "none" -> r1
              [] hook = "ok" -> Log(r1, "update", id, NoError)
              [] OTHER -> [Log(r1, "update", id, NoError) EXCEPT
                              !.result = "rejected", !.error = HookError(id, "update")]

\* The call of init made by setEnabled and reload, run up to its first
\* await.  The call is on top of the caller's frame.
StartInit(r, id) == Run([r EXCEPT !.stack = <<InitFrame(id)>>], 1)

\* setEnabled without the call of init of line 258.
setEnabledKeepsDown(r, id, enabled) ==
    LET r1 == updateConfig(r, id, enabled)
    IN IF r1.result = "rejected" THEN r1
       ELSE IF ~enabled /\ Has(r1.initialized, id) THEN destroy(r1, id)
       ELSE r1

\* setEnabled(id, enabled), lines 254-262.  The promise init returns is
\* dropped: the init it starts goes on by itself, and a rejection of it does
\* not reach the caller.
setEnabled(r, id, enabled) ==
    LET r1 == updateConfig(r, id, enabled)
    IN IF r1.result = "rejected" THEN r1
       ELSE IF enabled /\ ~Has(r1.initialized, id)
            THEN [StartInit(r1, id) EXCEPT !.result = "running", !.error = NoError]
       ELSE IF ~enabled /\ Has(r1.initialized, id) THEN destroy(r1, id)
       ELSE r1

\* reload(id), lines 280-283: destroy, then the call of init, which reload
\* awaits; a throw of destroy rejects the promise reload returns.
reload(r, id) ==
    LET r1 == destroy(r, id)
    IN IF r1.result = "rejected" THEN r1 ELSE StartInit(r1, id)

\* ------------------------------------------------------------------ state

VARIABLES
    state,          \* this.state of the store
    subscribers,    \* this.subscribers: key -> callbacks, in insertion order
    history,        \* this.history
    historyIndex,   \* this.historyIndex
    storage,        \* the localStorage slot 'openclaw_dashboard_state'
    events,         \* this.events of the event channel: topic -> entries
    wrappers,       \* number of once() wrappers built so far
    onceRuns,       \* per once() wrapper, the calls of its callback so far
    calls,          \* the callback invocations of the last operation, in order
    last,           \* the last operation: its arguments, outcome and pre-state
    budget,         \* operations the run may still perform, per kind
    setRun,         \* getState() before each set of the current run of sets
    undoRun,        \* number of undo() calls made since that run of sets
    timeline,       \* the snapshots taken before the mutations made, and how many
                    \* of these mutations are applied
    copies,         \* object identity in this.history: which entry, if any, is
                    \* the very object this.state refers to, and a copy of each
                    \* entry made when it was pushed
    modules,        \* this.modules of the registry: id -> definition
    configs,        \* this.configs, in insertion order
    instances,      \* this.instances: id -> serial number of the instance, 0 for none
    initialized,    \* this.initialized, in insertion order
    isInitializing, \* this.isInitializing
    serial,         \* number of module instances created so far
    tasks,          \* the init / initAll calls in flight, each a stack of frames
    trace,          \* the lifecycle log: of the latest registry call where calls are
                    \* made one at a time, of the run where they overlap
    regLast         \* the latest registry call: its arguments, outcome, pre-state

vars ==
    <<state, subscribers, history, historyIndex, storage, events, wrappers,
      onceRuns, calls, last, budget, setRun, undoRun, timeline, copies, modules, configs, instances,
      initialized, isInitializing, serial, tasks, trace, regLast>>

registryVars ==
    <<modules, configs, instances, initialized, isInitializing, serial, tasks, trace,
      regLast>>

storeVars ==
    <<state, subscribers, history, historyIndex, storage, events, wrappers, onceRuns,
      calls, last, setRun, undoRun, timeline, copies>>

\* The program's state as one record, with the bookkeeping of one operation:
\* the calls it made, the writes to the slot it tried, whether it threw.
Machine ==
    [state |-> state, subscribers |-> subscribers, history |-> history,
     historyIndex |-> historyIndex, storage |-> storage, events |-> events,
     calls |-> <<>>, persists |-> 0, passes |-> 0, depth |-> 0, threw |-> FALSE,
     ret |-> TRUE, alias |-> copies.alias, taken |-> copies.taken]

\* The event channel once no emit is running.
Settled(ev) == [t \in AllTopics |-> Compact(ev[t])]

\* The calls in `log` of the callback of the w-th once() wrapper.
WrapperCalls(log, w) == Cardinality({i \in DOMAIN log : log[i].src = "bus" /\ log[i].w = w})

Commit(m) ==
    /\ state' = m.state
    /\ subscribers' = m.subscribers
    /\ history' = m.history
    /\ historyIndex' = m.historyIndex
    /\ storage' = m.storage
    /\ events' = Settled(m.events)
    /\ onceRuns' = [w \in DOMAIN onceRuns |-> onceRuns[w] + WrapperCalls(m.calls, w)]
    /\ calls' = m.calls
    /\ copies' = [alias |-> m.alias, taken |-> m.taken]

NoChain == [stage |-> 0, path |-> <<>>, value |-> Undefined]

\* What is recorded of an operation `op` that took Machine to m; calls and
\* last always describe the latest operation, whichever it was.
Observed(op, m) ==
    [op |-> op, path |-> <<>>, value |-> Undefined, notify |-> FALSE,
     updates |-> <<>>, payload |-> NoPayload, fail |-> FALSE, threw |-> m.threw,
     ret |-> m.ret, pre |-> state, preHistory |-> history, preIndex |-> historyIndex,
     preEvents |-> events, preSubs |-> subscribers, persists |-> m.persists,
     chain |-> NoChain]

NoEvents == [t \in AllTopics |-> <<>>]

\* The registry as one record, with the bookkeeping of one call: the stack of
\* frames it runs, and its outcome.
Registry ==
    [modules |-> modules, configs |-> configs, instances |-> instances,
     initialized |-> initialized, isInitializing |-> isInitializing, serial |-> serial,
     trace |-> <<>>, stack |-> <<>>, result |-> "running", error |-> NoError]

CommitRegistry(r) ==
    /\ modules' = r.modules
    /\ configs' = r.configs
    /\ instances' = r.instances
    /\ initialized' = r.initialized
    /\ isInitializing' = r.isInitializing
    /\ serial' = r.serial
    /\ trace' = r.trace
    /\ tasks' = IF r.stack = <<>> THEN <<>> ELSE <<r.stack>>

\* What is recorded of a registry call `op` on module id that has brought the
\* registry to r: whether it has returned (or its promise settled), how, and
\* the registry it started from.
Called(op, id, r) ==
    [op |-> op, id |-> id, enabled |-> TRUE, done |-> r.stack = <<>>,
     result |-> IF r.stack # <<>> THEN "running"
                ELSE IF r.result = "rejected" THEN "rejected" ELSE "resolved",
     error |-> r.error, preInitialized |-> initialized, preInstances |-> instances,
     preSerial |-> serial, preIsInitializing |-> isInitializing]

NoCall ==
    [op |-> "none", id |-> "none", enabled |-> TRUE, done |-> TRUE, result |-> "resolved", error |-> NoError,
     preInitialized |-> <<>>, preInstances |-> [id \in Ids |-> 0], preSerial |-> 0,
     preIsInitializing |-> FALSE]

NoSubscribers == [k \in SubKeys |-> <<>>]

\* No mutation has been made.
NoMutation == [snaps |-> <<>>, at |-> 0]

\* A mutation (set, batchUpdate) is made on tree t, tl being the mutations
\* made before: the mutations undone are forgotten, and so is the oldest one
\* beyond the capacity of the history.
MutatedFrom(tl, t) ==
    LET snaps == Append(SubSeq(tl.snaps, 1, tl.at), getState(t))
    IN IF Len(snaps) > MaxHistoryLength
       THEN [snaps |-> Tail(snaps), at |-> Len(snaps) - 1]
       ELSE [snaps |-> snaps, at |-> Len(snaps)]

Mutated(t) == MutatedFrom(timeline, t)

\* A batchUpdate that throws has made the sets before the one that threw:
\* each of them is a mutation.  From entry i of the batch on.
RECURSIVE MutatedUntilThrow(_, _, _, _)
MutatedUntilThrow(tl, m, updates, i) ==
    IF i > Len(updates) THEN tl
    ELSE LET m1 == set(m, updates[i].path, updates[i].value, BatchSetNotify, FALSE)
         IN IF m1.threw THEN tl
            ELSE MutatedUntilThrow(MutatedFrom(tl, m.state), m1, updates, i + 1)

\* The latest applied mutation is undone, if there is one.
Unapplied == [timeline EXCEPT !.at = IF @ > 0 THEN @ - 1 ELSE @]

\* The latest undone mutation is applied again, if there is one.
Reapplied == [timeline EXCEPT !.at = IF @ < Len(timeline.snaps) THEN @ + 1 ELSE @]

\* The state after construction (lines 32-52) with `slot` in localStorage,
\* `fail` being the read of it throwing, and a run's budget b.
InitFrom(b, slot, fail) ==
    /\ state = loadPersistedState(getInitialState, slot, fail)
    /\ subscribers = NoSubscribers
    /\ history = <<>>
    /\ historyIndex = -1
    /\ storage = slot
    /\ events = NoEvents
    /\ wrappers = 0
    /\ onceRuns = <<>>
    /\ calls = <<>>
    /\ last = [op |-> "none", path |-> <<>>, value |-> Undefined, notify |-> FALSE,
               updates |-> <<>>, payload |-> NoPayload, fail |-> fail, threw |-> FALSE,
               ret |-> TRUE, pre |-> getInitialState, preHistory |-> <<>>, preIndex |-> -1,
               preEvents |-> NoEvents, preSubs |-> NoSubscribers, persists |-> 0,
               chain |-> NoChain]
    /\ budget = b
    /\ setRun = <<>>
    /\ undoRun = 0
    /\ timeline = NoMutation
    /\ copies = [alias |-> 0, taken |-> <<>>]
    /\ modules = [id \in Ids |-> NoDefinition]
    /\ configs = <<>>
    /\ instances = [id \in Ids |-> 0]
    /\ initialized = <<>>
    /\ isInitializing = FALSE
    /\ serial = 0
    /\ tasks = <<>>
    /\ trace = <<>>
    /\ regLast = NoCall

\* The state after construction with an empty slot.
InitWith(b) == InitFrom(b, NoSlot, FALSE)

\* Whether the slot may refuse a write in this run.
FailChoices == IF budget.faults > 0 THEN BOOLEAN ELSE {FALSE}

\* The notify arguments a run draws: with nothing subscribed or registered and
\* no budget to do so, notify changes nothing and only the default is drawn.
NotifyChoices ==
    IF budget.subs > 0 \/ budget.regs > 0 \/ subscribers # NoSubscribers \/ events # NoEvents
    THEN BOOLEAN ELSE {TRUE}

\* ---------------------------------------------------------------- actions

Set(path, value, notify, fail) ==
    /\ budget.writes > 0
    /\ budget' = [budget EXCEPT !.writes = @ - 1]
    /\ \E m \in {set(Machine, path, value, notify, fail)} :
          /\ Commit(m)
          /\ last' = [Observed("set", m) EXCEPT
                        !.path = path, !.value = value, !.notify = notify, !.fail = fail,
                        !.chain = IF m.threw THEN NoChain
                                  ELSE [stage |-> 1, path |-> path, value |-> value]]
          /\ setRun' = IF m.threw THEN setRun
                       ELSE IF undoRun > 0 THEN <<getState(state)>>
                       ELSE Append(setRun, getState(state))
          /\ undoRun' = IF m.threw THEN undoRun ELSE 0
          /\ timeline' = IF m.threw THEN timeline ELSE Mutated(state)
    /\ UNCHANGED <<wrappers, registryVars>>

BatchPaths == {<<"agent", "avatar">>, <<"agent", "avatar", "url">>, <<"ui", "theme">>}

BatchValues == {EmptyObject}

\* The objects handed to batchUpdate: up to MaxBatch entries, keys distinct.
Batches ==
    {u \in UNION {[1..n -> [path : BatchPaths, value : BatchValues]] : n \in 1..MaxBatch} :
        \A i, j \in 1..Len(u) : i # j => u[i].path # u[j].path}

BatchUpdate(updates, fail) ==
    /\ budget.writes > 0
    /\ budget' = [budget EXCEPT !.writes = @ - 1]
    /\ \E m \in {batchUpdate(Machine, updates, fail)} :
          /\ Commit(m)
          /\ last' = [Observed("batch", m) EXCEPT !.updates = updates, !.notify = TRUE,
                                                  !.fail = fail]
          /\ timeline' = IF m.threw THEN MutatedUntilThrow(timeline, Machine, updates, 1)
                          ELSE Mutated(state)
    /\ setRun' = <<>>
    /\ undoRun' = 0
    /\ UNCHANGED <<wrappers, registryVars>>

Undo ==
    /\ budget.moves > 0
    /\ budget' = [budget EXCEPT !.moves = @ - 1]
    /\ \E m \in {undo(Machine)} :
          /\ Commit(m)
          /\ last' = [Observed("undo", m) EXCEPT
                        !.chain = IF last.chain.stage = 1 /\ m.ret
                                  THEN [last.chain EXCEPT !.stage = 2] ELSE NoChain]
          /\ timeline' = IF m.ret THEN Unapplied ELSE timeline
    /\ undoRun' = undoRun + 1
    /\ UNCHANGED <<wrappers, setRun, registryVars>>

Redo ==
    /\ budget.moves > 0
    /\ budget' = [budget EXCEPT !.moves = @ - 1]
    /\ \E m \in {redo(Machine)} :
          /\ Commit(m)
          /\ last' = [Observed("redo", m) EXCEPT
                        !.chain = IF last.chain.stage = 2
                                  THEN [last.chain EXCEPT !.stage = 3] ELSE NoChain]
          /\ timeline' = IF m.ret THEN Reapplied ELSE timeline
    /\ setRun' = <<>>
    /\ undoRun' = 0
    /\ UNCHANGED <<wrappers, registryVars>>

Reset(fail) ==
    /\ budget.moves > 0
    /\ budget' = [budget EXCEPT !.moves = @ - 1]
    /\ \E m \in {reset(Machine, fail)} :
          /\ Commit(m)
          /\ last' = [Observed("reset", m) EXCEPT !.fail = fail]
    /\ timeline' = NoMutation
    /\ setRun' = <<>>
    /\ undoRun' = 0
    /\ UNCHANGED <<wrappers, registryVars>>

Subscribe(path, callback) ==
    /\ budget.subs > 0
    /\ budget' = [budget EXCEPT !.subs = @ - 1]
    /\ subscribers' = subscribe(subscribers, path, callback)
    /\ calls' = <<>>
    /\ last' = Observed("subscribe", Machine)
    /\ UNCHANGED <<state, history, historyIndex, storage, events, wrappers, onceRuns,
                 setRun, undoRun, timeline, copies, registryVars>>

\* Calling the function a subscribe returned.
Unsubscribe(path, callback) ==
    /\ Contains(subscribers[path], callback)
    /\ subscribers' = unsubscribe(subscribers, path, callback)
    /\ calls' = <<>>
    /\ last' = Observed("unsubscribe", Machine)
    /\ UNCHANGED <<state, history, historyIndex, storage, events, wrappers, onceRuns,
                 budget, setRun, undoRun, timeline, copies, registryVars>>

On(event, callback) ==
    /\ budget.regs > 0
    /\ budget' = [budget EXCEPT !.regs = @ - 1]
    /\ events' = on(events, event, Plain(callback))
    /\ calls' = <<>>
    /\ last' = Observed("on", Machine)
    /\ UNCHANGED <<state, subscribers, history, historyIndex, storage, wrappers, onceRuns,
                 setRun, undoRun, timeline, copies, registryVars>>

\* once(event, callback): a fresh wrapper is registered with on.
Once(event, callback) ==
    /\ budget.regs > 0
    /\ budget' = [budget EXCEPT !.regs = @ - 1]
    /\ wrappers' = wrappers + 1
    /\ onceRuns' = Append(onceRuns, 0)
    /\ events' = on(events, event, [cb |-> callback, w |-> wrappers + 1])
    /\ calls' = <<>>
    /\ last' = Observed("once", Machine)
    /\ UNCHANGED <<state, subscribers, history, historyIndex, storage, setRun, undoRun, timeline, copies,
                 registryVars>>

Off(event, callback) ==
    /\ Contains(events[event], Plain(callback))
    /\ events' = Settled(off(events, event, Plain(callback)))
    /\ calls' = <<>>
    /\ last' = Observed("off", Machine)
    /\ UNCHANGED <<state, subscribers, history, historyIndex, storage, wrappers, onceRuns,
                 budget, setRun, undoRun, timeline, copies, registryVars>>

Clear(event, all) ==
    /\ events # clear(events, event, all)
    /\ events' = clear(events, event, all)
    /\ calls' = <<>>
    /\ last' = Observed("clear", Machine)
    /\ UNCHANGED <<state, subscribers, history, historyIndex, storage, wrappers, onceRuns,
                 budget, setRun, undoRun, timeline, copies, registryVars>>

Emit(event, payload) ==
    /\ budget.emits > 0
    /\ budget' = [budget EXCEPT !.emits = @ - 1]
    /\ \E m \in {emit(Machine, event, payload)} :
          /\ Commit(m)
          /\ last' = [Observed("emit", m) EXCEPT !.path = event, !.payload = payload]
    /\ UNCHANGED <<wrappers, setRun, undoRun, timeline, registryVars>>

\* register(id, definition, config) of a module not registered yet.
Register(id, definition, config) ==
    /\ tasks = <<>>
    /\ ~Registered(Registry, id)
    /\ \E r \in {register(Registry, id, definition, config)} :
          /\ CommitRegistry(r)
          /\ regLast' = Called("register", id, r)
    /\ UNCHANGED <<storeVars, budget>>

\* init(id), called while no other call is in flight: the call runs up to
\* its first await.
InitModule(id) ==
    /\ tasks = <<>>
    /\ budget.runs > 0
    /\ budget' = [budget EXCEPT !.runs = @ - 1]
    /\ \E r \in {Run([Registry EXCEPT !.stack = <<InitFrame(id)>>], 0)} :
          /\ CommitRegistry(r)
          /\ regLast' = Called("init", id, r)
    /\ UNCHANGED storeVars

\* initAll(), called while no other call is in flight.
InitAll ==
    /\ tasks = <<>>
    /\ budget.runs > 0
    /\ budget' = [budget EXCEPT !.runs = @ - 1]
    /\ \E r \in {Run([Registry EXCEPT !.stack = <<InitAllFrame>>], 0)} :
          /\ CommitRegistry(r)
          /\ regLast' = Called("initAll", "none", r)
    /\ UNCHANGED storeVars

\* The call in flight goes on behind the await it was suspended in, up to
\* its next await or its end.
Await ==
    /\ tasks # <<>>
    /\ Resumable(tasks[1])
    /\ \E r \in {Resume([Registry EXCEPT !.stack = tasks[1], !.trace = trace])} :
          /\ CommitRegistry(r)
          /\ regLast' = [regLast EXCEPT
                           !.done = r.stack = <<>>,
                           !.result = IF r.stack # <<>> THEN "running"
                                      ELSE IF r.result = "rejected" THEN "rejected"
                                      ELSE "resolved",
                           !.error = r.error]
    /\ UNCHANGED <<storeVars, budget>>

\* destroyAll(), called while no other call is in flight.
DestroyAll ==
    /\ tasks = <<>>
    /\ budget.runs > 0
    /\ budget' = [budget EXCEPT !.runs = @ - 1]
    /\ \E r \in {destroyAll(Registry)} :
          /\ CommitRegistry(r)
          /\ regLast' = Called("destroyAll", "none", r)
    /\ UNCHANGED storeVars

\* The registry in a run whose calls overlap: the log goes on.
Running == [Registry EXCEPT !.trace = trace]

\* The calls in flight other than the i-th.
Others(i) == [j \in 1..(Len(tasks) - 1) |-> IF j < i THEN tasks[j] ELSE tasks[j + 1]]

\* The registry after a step that has brought it to r, `rest` being the calls
\* in flight the step did not run: the call the step ran is in flight too
\* unless it has settled.
CommitTask(r, rest) ==
    /\ modules' = r.modules
    /\ configs' = r.configs
    /\ instances' = r.instances
    /\ initialized' = r.initialized
    /\ isInitializing' = r.isInitializing
    /\ serial' = r.serial
    /\ trace' = r.trace
    /\ tasks' = IF r.stack = <<>> THEN rest ELSE Append(rest, r.stack)

\* What is recorded of a call that returns at once, whatever it has started.
Returned(op, id, enabled, r) ==
    [Called(op, id, r) EXCEPT
        !.enabled = enabled, !.done = TRUE,
        !.result = IF r.result = "rejected" THEN "rejected" ELSE "resolved"]

\* register(id, definition, config) of a module not registered yet, before
\* the first lifecycle call of the run.
RegisterFirst(id, definition, config) ==
    /\ trace = <<>>
    /\ Register(id, definition, config)

\* init(id), called while other calls may be in flight.
InitDuring(id) ==
    /\ budget.runs > 0
    /\ budget' = [budget EXCEPT !.runs = @ - 1]
    /\ \E r \in {Run([Log(Running, "call", id, NoError) EXCEPT !.stack = <<InitFrame(id)>>], 0)} :
          /\ CommitTask(r, tasks)
          /\ regLast' = Called("init", id, r)
    /\ UNCHANGED storeVars

\* setEnabled(id, enabled); the init it starts is a call in flight of its own.
SetEnabled(id, enabled) ==
    /\ budget.runs > 0
    /\ budget' = [budget EXCEPT !.runs = @ - 1]
    /\ \E r \in {setEnabled(Log(Running, IF enabled THEN "enable" ELSE "disable", id, NoError),
                             id, enabled)} :
          /\ CommitTask(r, tasks)
          /\ regLast' = Returned("setEnabled", id, enabled, r)
    /\ UNCHANGED storeVars

\* updateConfig(id, { enabled: false })
UpdateConfig(id) ==
    /\ budget.runs > 0
    /\ budget' = [budget EXCEPT !.runs = @ - 1]
    /\ \E r \in {updateConfig(Log(Running, "configure", id, NoError), id, FALSE)} :
          /\ CommitTask(r, tasks)
          /\ regLast' = Returned("updateConfig", id, FALSE, r)
    /\ UNCHANGED storeVars

\* destroy(id)
Destroy(id) ==
    /\ budget.runs > 0
    /\ budget' = [budget EXCEPT !.runs = @ - 1]
    /\ \E r \in {destroy(Log(Running, "destroyCall", id, NoError), id)} :
          /\ CommitTask(r, tasks)
          /\ regLast' = Returned("destroy", id, TRUE, r)
    /\ UNCHANGED storeVars

\* reload(id)
Reload(id) ==
    /\ budget.runs > 0
    /\ budget' = [budget EXCEPT !.runs = @ - 1]
    /\ \E r \in {reload(Log(Running, "reload", id, NoError), id)} :
          /\ CommitTask(r, tasks)
          /\ regLast' = Called("reload", id, r)
    /\ UNCHANGED storeVars

\* The i-th call in flight goes on behind the await it was suspended in, up
\* to its next await or its end.
AwaitTask(i) ==
    /\ i \in DOMAIN tasks
    /\ Resumable(tasks[i])
    /\ \E r \in {Resume([Running EXCEPT !.stack = tasks[i]])} :
          /\ CommitTask(r, Others(i))
          /\ regLast' = Called("await", Top(tasks[i]).id, r)
    /\ UNCHANGED <<storeVars, budget>>

\* --------------------------------------------------------- specifications

\* The store's mutations and its history stack.
Init == InitWith([writes |-> MaxOps, moves |-> MaxOps, subs |-> 0, regs |-> 0,
                  emits |-> 0, faults |-> 0, runs |-> 0])

Next ==
    \/ \E p \in PathSet, v \in Values, n \in NotifyChoices, f \in FailChoices : Set(p, v, n, f)
    \/ \E u \in Batches, f \in FailChoices : BatchUpdate(u, f)
    \/ Undo
    \/ Redo
    \/ \E f \in FailChoices : Reset(f)

Spec == Init /\ [][Next]_vars

\* The store's notifications: subscriptions, then writes that notify.
InitNotify == InitWith([writes |-> MaxNotifyOps, moves |-> 0, subs |-> MaxSubs,
                        regs |-> 0, emits |-> 0, faults |-> 0, runs |-> 0])

\* The keys subscribed on, and the writes made, in SpecNotify.
NotifyKeys == SubKeys \ {<<"ui">>}

NotifyPaths == {<<"agent", "avatar">>, <<"agent", "avatar", "url">>}

NotifyValues == {Null, EmptyObject}

NextNotify ==
    \/ \E k \in NotifyKeys, cb \in Callbacks : Subscribe(k, cb)
    \/ \E k \in NotifyKeys, cb \in Callbacks : Unsubscribe(k, cb)
    \/ \E p \in NotifyPaths, v \in NotifyValues, n \in NotifyChoices, f \in FailChoices :
            Set(p, v, n, f)
    \/ \E u \in Batches, f \in FailChoices : BatchUpdate(u, f)

SpecNotify == InitNotify /\ [][NextNotify]_vars

\* The event channel on its own.
InitBus == InitWith([writes |-> 0, moves |-> 0, subs |-> 0, regs |-> MaxBusSubs,
                     emits |-> MaxEmits, faults |-> 0, runs |-> 0])

NextBus ==
    \/ \E t \in UserTopics, cb \in Callbacks : On(t, cb)
    \/ \E t \in UserTopics, cb \in Callbacks : Once(t, cb)
    \/ \E t \in UserTopics, cb \in Callbacks : Off(t, cb)
    \/ \E t \in UserTopics, all \in BOOLEAN : Clear(t, all)
    \/ \E t \in UserTopics, d \in Payloads : Emit(t, d)

SpecBus == InitBus /\ [][NextBus]_vars

\* The event channel with callbacks that call back into it.  "pub" is only
\* registered through once(): registered with on() on the topic it publishes
\* on, it publishes from inside its own call until the call stack is full.
OnCallbacks == {"f", "sub", "subw"}

OnceCallbacks == {"f", "pub"}

NextReentrant ==
    \/ \E t \in UserTopics, cb \in OnCallbacks : On(t, cb)
    \/ \E t \in UserTopics, cb \in OnceCallbacks : Once(t, cb)
    \/ \E t \in UserTopics, d \in Payloads : Emit(t, d)

SpecReentrant == InitBus /\ [][NextReentrant]_vars

\* The registry: modules with hooks that succeed, registered with or without
\* dependencies, enabled or not, at either priority; then init and initAll.
InitRegistry == InitWith([writes |-> 0, moves |-> 0, subs |-> 0, regs |-> 0,
                          emits |-> 0, faults |-> 0, runs |-> MaxRuns])

\* A module with an init hook, and one without hooks.
Hooked == Definition("ok", "ok", "none", "none")

Bare == Definition("ok", "none", "none", "none")

DefinitionOf(id) == IF id = "C" THEN Bare ELSE Hooked

\* The dependency lists a registration of id draws.
DepChoices(id) ==
    CASE id = "A" -> {<<>>}
      [] id = "B" -> {<<>>, <<"A">>}
      [] OTHER -> {<<>>, <<"B">>}

Priorities == {0, 1}

Config(dependencies, enabled, priority, container) ==
    [dependencies |-> dependencies, enabled |-> enabled, priority |-> priority,
     container |-> container]

NextRegistry ==
    \/ \E id \in Ids, e \in BOOLEAN, p \in Priorities :
            \E deps \in DepChoices(id) :
                Register(id, DefinitionOf(id), Config(deps, e, p, "none"))
    \/ \E id \in Ids : InitModule(id)
    \/ InitAll
    \/ Await

SpecRegistry == InitRegistry /\ [][NextRegistry]_vars

\* The registry with modules whose constructor or hooks throw, and with
\* dependency lists that form a cycle.
FaultIds == {"A", "B"}

Definitions ==
    { Definition("ok", "ok", "ok", "ok"),
      Definition("throws", "ok", "none", "ok"),
      Definition("ok", "throws", "none", "ok"),
      Definition("ok", "ok", "throws", "none"),
      Definition("ok", "ok", "none", "throws") }

FaultDepChoices(id) == IF id = "A" THEN {<<>>, <<"A">>, <<"B">>} ELSE {<<>>, <<"A">>}

Containers == {"#main", "#gone"}

NextFaults ==
    \/ \E id \in FaultIds, d \in Definitions, c \in Containers :
            \E deps \in FaultDepChoices(id) : Register(id, d, Config(deps, TRUE, 0, c))
    \/ \E id \in FaultIds : InitModule(id)
    \/ InitAll
    \/ Await
    \/ DestroyAll

SpecFaults == InitRegistry /\ [][NextFaults]_vars

\* The store with a localStorage slot that may hold a saved copy at
\* construction and may throw when read, written or removed, with
\* subscribers on the store and callbacks on the event channel.
SavedUi == Serialize(ValueAt(WriteAt(getInitialState, <<"ui", "theme">>, EmptyObject), <<"ui">>))

Slots == {NoSlot, [saved |-> TRUE, ui |-> SavedUi]}

InitStorage ==
    \E slot \in Slots, fail \in BOOLEAN :
        InitFrom([writes |-> MaxNotifyOps, moves |-> MaxOps, subs |-> MaxWatchers,
                  regs |-> MaxWatchers, emits |-> 0, faults |-> 1, runs |-> 0], slot, fail)

\* The keys subscribed on, the topics listened on and the writes made.
StorageKeys == {Wild, <<"ui">>, <<"ui", "theme">>}

StorageTopics == {Wild, StateTopic(Wild), StateTopic(<<"ui", "theme">>)}

StoragePaths == {<<"ui", "theme">>, <<"agent", "avatar", "url">>}

NextStorage ==
    \/ \E k \in StorageKeys : Subscribe(k, "f")
    \/ \E t \in StorageTopics : On(t, "f")
    \/ \E p \in StoragePaths, v \in NotifyValues, f \in FailChoices : Set(p, v, TRUE, f)
    \/ \E u \in Batches, f \in FailChoices : BatchUpdate(u, f)
    \/ Undo
    \/ Redo
    \/ \E f \in FailChoices : Reset(f)

SpecStorage == InitStorage /\ [][NextStorage]_vars

\* The registry with calls that overlap: once the modules are registered,
\* init, setEnabled, updateConfig, destroy and reload are called while earlier calls are
\* suspended in a hook.  A hook that
\* does not throw returns, or its promise resolves, and the continuation
\* behind an await is then run by the event loop: a call that can go on
\* does go on.
Toggled == Updatable(Definition("ok", "ok", "none", "ok"), "ok")

Failing == Definition("ok", "throws", "none", "ok")

OverlapDefinitions == {Toggled, Failing}

OverlapDepChoices(id) == IF id = "A" THEN {<<>>} ELSE {<<>>, <<"A">>}

AwaitSome == \E i \in DOMAIN tasks : AwaitTask(i)

NextOverlap ==
    \/ \E id \in FaultIds, d \in OverlapDefinitions, e \in BOOLEAN :
            \E deps \in OverlapDepChoices(id) :
                RegisterFirst(id, d, Config(deps, e, 0, "none"))
    \/ \E id \in FaultIds : InitDuring(id)
    \/ \E id \in FaultIds, e \in BOOLEAN : SetEnabled(id, e)
    \/ \E id \in FaultIds : UpdateConfig(id)
    \/ \E id \in FaultIds : Destroy(id)
    \/ \E id \in FaultIds : Reload(id)
    \/ AwaitSome

SpecOverlap == InitRegistry /\ [][NextOverlap]_vars /\ WF_vars(AwaitSome)

\* The store and the event channel with callbacks that call back into them
\* while a cascade or an emit is running: subscribers that throw, that call
\* an unsubscribe function or that write to the store, and channel callbacks
\* that call an unsubscribe function.
InitCascade == InitWith([writes |-> MaxNotifyOps, moves |-> MaxNotifyOps, subs |-> MaxPairs,
                         regs |-> MaxPairs, emits |-> MaxNotifyOps, faults |-> 0,
                         runs |-> 0])

CascadeSubscribers == {"f", "g", "drop", "write"}

CascadeKeys == {Wild, <<"ui", "theme">>}

CascadeListeners == {"f", "unsub"}

CascadeTopics == {Wild, StateTopic(<<"ui", "theme">>)}

\* The batches of two entries that write ui.theme first.
CascadeBatches == {u \in Batches : Len(u) = MaxBatch /\ u[1].path = <<"ui", "theme">>}

NextCascade ==
    \/ \E k \in CascadeKeys, cb \in CascadeSubscribers : Subscribe(k, cb)
    \/ Unsubscribe(Wild, "f")
    \/ \E t \in CascadeTopics, cb \in CascadeListeners : On(t, cb)
    \/ Off(Wild, "f")
    \/ \E v \in NotifyValues, n \in BOOLEAN : Set(<<"ui", "theme">>, v, n, FALSE)
    \/ \E u \in CascadeBatches : BatchUpdate(u, FALSE)
    \/ Undo
    \/ \E d \in Payloads : Emit(Wild, d)

SpecCascade == InitCascade /\ [][NextCascade]_vars

\* The registry with modules brought up and torn down one call at a time:
\* modules with a destroy hook, without one, and with one that throws.
TeardownDefinitions ==
    {Hooked, Definition("ok", "ok", "none", "ok"), Definition("ok", "ok", "none", "throws")}

NextTeardown ==
    \/ \E id \in FaultIds, d \in TeardownDefinitions :
            \E deps \in OverlapDepChoices(id) :
                RegisterFirst(id, d, Config(deps, TRUE, 0, "none"))
    \/ \E id \in FaultIds : tasks = <<>> /\ InitDuring(id)
    \/ \E id \in FaultIds : tasks = <<>> /\ Destroy(id)
    \/ \E id \in FaultIds : tasks = <<>> /\ Reload(id)
    \/ AwaitSome

SpecTeardown == InitRegistry /\ [][NextTeardown]_vars

\* ------------------------------------------------------------------ claims

\* C1: after set(P, V), get(P) returns V, for every path, value and reachable
\* tree, also when a prefix of P holds null or a scalar.
C1_SetThenGet ==
    last.op = "set" => ~last.threw /\ get(state, last.path, Undefined) = last.value

\* C2: after a run of sets followed by as many (or fewer) undos, no more than
\* the history capacity, every undo returned true and getState() equals the
\* getState() taken before the oldest set undone.
C2_UndoRoundTrip ==
    (last.op = "undo" /\ undoRun >= 1 /\ undoRun <= Len(setRun)
        /\ undoRun <= MaxHistoryLength)
    => /\ last.ret
       /\ ~last.threw
       /\ getState(state) = setRun[Len(setRun) - undoRun + 1]

\* Two sets that each changed the tree, then two undos.
C2_Witness ==
    /\ last.op = "undo"
    /\ undoRun = 2
    /\ Len(setRun) = 2
    /\ setRun[1] # setRun[2]
    /\ last.pre # state

\* C3: after set(p, v1); undo(); redo(), redo returned true and get(p) is v1.
C3_RedoRoundTrip ==
    (last.op = "redo" /\ last.chain.stage = 3)
    => last.ret /\ get(state, last.chain.path, Undefined) = last.chain.value

\* C4: right after a set that returned, no history entry lies beyond the
\* cursor and redo() returns false, whatever undos preceded the set.
C4_SetDiscardsRedo ==
    (last.op = "set" /\ ~last.threw)
    => /\ historyIndex = Len(history) - 1
       /\ ~redo(Machine).ret

\* A set made while entries lay beyond the cursor, that is after an undo.
C4_Witness ==
    /\ last.op = "set"
    /\ ~last.threw
    /\ last.preIndex < Len(last.preHistory) - 1

\* C8: a batchUpdate records exactly one history entry (below capacity the
\* stack grows by one and the cursor advances by one) and persists once.
C8_BatchOneEntry ==
    (last.op = "batch" /\ ~last.threw)
    => /\ last.persists = 1
       /\ (last.preIndex + 2 <= MaxHistoryLength
           => Len(history) = last.preIndex + 2 /\ historyIndex = last.preIndex + 1)

\* The store calls of the last operation made for key k and callback cb.
StoreCalls(k, cb) ==
    {i \in DOMAIN calls : calls[i].src = "store" /\ calls[i].key = k /\ calls[i].cb = cb}

\* The place of a call in its cascade: 0 for the changed path itself, 1 for
\* its nearest ancestor, more for farther ones, most for '*'.
Rank(c) ==
    IF c.key = c.path THEN 0
    ELSE IF c.key = Wild THEN Len(c.path) + 1
    ELSE Len(c.path) - Len(c.key)

\* C5: in the cascade of a write, the exact subscribers of changedPath run
\* first, then those of each strict ancestor from the nearest outward, then
\* those of '*'; nobody else runs.
C5_CascadeOrder ==
    last.op \in {"set", "batch"}
    => /\ \A i \in DOMAIN calls :
            \/ calls[i].key = calls[i].path
            \/ IsStrictPrefix(calls[i].key, calls[i].path)
            \/ calls[i].key = Wild
       /\ \A i, j \in DOMAIN calls :
            (i < j /\ calls[i].pass = calls[j].pass) => Rank(calls[i]) <= Rank(calls[j])

\* A cascade that ran an exact subscriber, an ancestor's and a wildcard one.
C5_Witness ==
    /\ last.op = "set"
    /\ \E i, j, k \in DOMAIN calls :
          /\ i < j /\ j < k
          /\ calls[i].key = last.path
          /\ IsStrictPrefix(calls[j].key, last.path)
          /\ calls[k].key = Wild

\* C6: a notifying set(P, V) calls each subscriber of P once with (V, the
\* value P held before, P) and each subscriber of a strict ancestor A of P
\* once with (the value at A after the write, undefined, P).
C6_SetNotifiesOnce ==
    (last.op = "set" /\ last.notify /\ ~last.threw)
    => \A k \in SubKeys, cb \in Callbacks :
          Contains(last.preSubs[k], cb)
          => /\ k = last.path
                => /\ Cardinality(StoreCalls(k, cb)) = 1
                   /\ \A i \in StoreCalls(k, cb) :
                         /\ calls[i].new = last.value
                         /\ calls[i].old = get(last.pre, last.path, Undefined)
                         /\ calls[i].path = last.path
             /\ IsStrictPrefix(k, last.path)
                => /\ Cardinality(StoreCalls(k, cb)) = 1
                   /\ \A i \in StoreCalls(k, cb) :
                         /\ calls[i].new = get(state, k, Undefined)
                         /\ calls[i].old = Undefined
                         /\ calls[i].path = last.path

\* A notifying set that changed the value at P, with a subscriber of P and
\* one of an ancestor of P.
C6_Witness ==
    /\ last.op = "set" /\ last.notify /\ ~last.threw
    /\ get(last.pre, last.path, Undefined) # last.value
    /\ \E i, j \in DOMAIN calls :
          /\ calls[i].key = last.path
          /\ IsStrictPrefix(calls[j].key, last.path)

\* Entry k of a batch is still in place at the end: no later entry wrote an
\* ancestor of its path.
Stands(updates, k) ==
    \A j \in DOMAIN updates : j > k => ~IsStrictPrefix(updates[j].path, updates[k].path)

BusCalls(k, e) ==
    {i \in DOMAIN calls :
        calls[i].src = "bus" /\ calls[i].key = k /\ calls[i].cb = e.cb /\ calls[i].w = e.w}

Entries(seq) == {seq[i] : i \in DOMAIN seq}

\* C9: emit(T, payload) calls nothing registered only on another topic, and
\* calls everything registered on '*', after the callbacks of T.
C9_TopicIsolation ==
    last.op = "emit"
    => /\ \A i \in DOMAIN calls : calls[i].key \in {last.path, Wild}
       /\ \A e \in Entries(last.preEvents[Wild]) : BusCalls(Wild, e) # {}
       /\ \A i, j \in DOMAIN calls : (calls[i].wrapped /\ ~calls[j].wrapped) => j < i

\* An emit on a topic with a callback of its own, with another registered on
\* a different topic and one on '*'.
C9_Witness ==
    /\ last.op = "emit"
    /\ last.path # Wild
    /\ \E t \in UserTopics \ {last.path, Wild} : last.preEvents[t] # <<>>
    /\ \E i, j \in DOMAIN calls : calls[i].key = last.path /\ calls[j].key = Wild

\* C10: when a callback throws during emit(T, payload), emit still returns
\* and every callback registered on T or on '*' when it began is called.
C10_EmitIsolatesThrows ==
    (last.op = "emit" /\ \E i \in DOMAIN calls : calls[i].threw)
    => /\ ~last.threw
       /\ \A k \in {last.path, Wild} :
            \A e \in Entries(last.preEvents[k]) : BusCalls(k, e) # {}

\* A callback threw and callbacks after it ran, on the topic and on '*'.
C10_Witness ==
    /\ last.op = "emit"
    /\ \E i, j, k \in DOMAIN calls :
          /\ i < j /\ j < k
          /\ calls[i].threw
          /\ ~calls[j].threw /\ ~calls[j].wrapped
          /\ calls[k].wrapped

\* C11: the callback of a once() registration is called at most once over
\* all emits, also when it publishes on its own topic from inside its call,
\* and its registration is gone when it starts to run.
C11_OnceFiresOnce ==
    /\ \A w \in DOMAIN onceRuns : onceRuns[w] <= 1
    /\ \A i \in DOMAIN calls : calls[i].w > 0 => ~calls[i].live

\* A once() callback on the topic it publishes on has run, and the emit it
\* issued from inside its call reached another callback of that topic.
C11_Witness ==
    /\ last.op = "emit"
    /\ \E i, j \in DOMAIN calls :
          /\ i < j
          /\ calls[i].w > 0 /\ calls[i].cb = "pub" /\ calls[i].key = InnerTopic
          /\ calls[i].depth = 0
          /\ calls[j].depth = 1 /\ calls[j].key = InnerTopic

Deps(id) == getConfig(Registry, id).dependencies

\* config.enabled of a registered module.
Enabled(id) == getConfig(Registry, id).enabled

\* Whether module x reaches module y along dependency lists, in at most n
\* steps.
RECURSIVE DependsOn(_, _, _)
DependsOn(x, y, n) ==
    /\ n > 0
    /\ Registered(Registry, x)
    /\ \E k \in DOMAIN Deps(x) :
          Deps(x)[k] = y \/ DependsOn(Deps(x)[k], y, n - 1)

IndexIn(seq, e) == CHOOSE i \in DOMAIN seq : seq[i] = e

\* C13: a module's instance is only created once every enabled module it
\* depends on has completed its init hook and is marked initialized, and
\* modules are marked in that order: for C depending on B depending on A,
\* A, then B, then C, by init(C) and by initAll() at any priorities.
C13_DependencyOrder ==
    /\ \A i \in DOMAIN trace :
          (trace[i].ev = "create" /\ Registered(Registry, trace[i].id))
          => \A k \in DOMAIN Deps(trace[i].id) :
                LET y == Deps(trace[i].id)[k]
                IN (Registered(Registry, y) /\ Enabled(y))
                   => Has(trace[i].initialized, y)
    /\ \A x \in Ids :
          Has(initialized, x)
          => \A k \in DOMAIN Deps(x) :
                LET y == Deps(x)[k]
                IN (Registered(Registry, y) /\ Enabled(y))
                   => /\ Has(initialized, y)
                      /\ IndexIn(initialized, y) < IndexIn(initialized, x)

\* initAll() has brought up C, which depends on B, which depends on A, C
\* having the higher priority and being the first initAll calls init on.
C13_Witness ==
    /\ regLast.op = "initAll" /\ regLast.done
    /\ regLast.preInitialized = <<>>
    /\ initialized = <<"A", "B", "C">>
    /\ Registered(Registry, "C") /\ Deps("C") = <<"B">> /\ Deps("B") = <<"A">>
    /\ getConfig(Registry, "C").priority > getConfig(Registry, "A").priority
    /\ \E i \in DOMAIN trace : trace[i].ev = "call" /\ trace[i].id = "C"
                               /\ trace[i].initialized = <<>>

\* The constructor or hook of a definition that throws when a module with
\* this container is brought up: "none" if none does.
Fault(def, container) ==
    CASE def.ctor = "throws" -> "ctor"
      [] def.init = "throws" -> "init"
      [] def.render = "throws" /\ container \in Document -> "render"
      [] OTHER -> "none"

FaultOf(id) == Fault(modules[id], getConfig(Registry, id).container)

\* Module y and everything it depends on is registered, enabled and free of
\* throwing hooks, the dependencies being followed n levels deep.
RECURSIVE Sound(_, _)
Sound(y, n) ==
    /\ n > 0
    /\ Registered(Registry, y)
    /\ Enabled(y)
    /\ FaultOf(y) = "none"
    /\ \A k \in DOMAIN Deps(y) : Sound(Deps(y)[k], n - 1)

\* C14: when initAll() has resolved, a module whose constructor or hook
\* throws is not initialized, every module that does not depend on a failing
\* one is, initAll did not reject and isInitializing is false again.
C14_PartialFailure ==
    (regLast.op = "initAll" /\ regLast.done)
    => /\ regLast.result = "resolved"
       /\ ~isInitializing
       /\ \A x \in Ids : (Registered(Registry, x) /\ FaultOf(x) # "none") => ~Has(initialized, x)
       /\ \A y \in Ids : Sound(y, Cardinality(Ids)) => Has(initialized, y)

\* initAll() has resolved after the init hook of the module it tried first
\* threw, and the other module is initialized.
C14_Witness ==
    /\ regLast.op = "initAll" /\ regLast.done
    /\ \E x, y \in Ids :
          /\ x # y
          /\ Registered(Registry, x) /\ FaultOf(x) = "init"
          /\ Sound(y, Cardinality(Ids)) /\ Has(initialized, y)
          /\ \E i, j \in DOMAIN trace :
                /\ i < j
                /\ trace[i].ev = "error" /\ trace[i].id = x
                /\ trace[j].ev = "loaded" /\ trace[j].id = y

\* C15: a module registered with enabled: false is never instantiated:
\* list() reports it as not initialized, get(id) returns no instance, and
\* init(id) on it resolves, having done nothing.
C15_DisabledSkipped ==
    /\ \A i \in DOMAIN list(Registry) :
          ~list(Registry)[i].config.enabled
          => /\ ~list(Registry)[i].initialized
             /\ getInstance(Registry, list(Registry)[i].id) = 0
    /\ (regLast.op = "init" /\ Registered(Registry, regLast.id) /\ ~Enabled(regLast.id))
       => regLast.done /\ regLast.result = "resolved" /\ trace = <<>>

\* initAll() has brought up a module that lists a disabled module as a
\* dependency.
C15_Witness ==
    /\ regLast.op = "initAll" /\ regLast.done
    /\ \E x, y \in Ids :
          /\ Registered(Registry, x) /\ Registered(Registry, y)
          /\ ~Enabled(y)
          /\ Has(initialized, x) /\ Deps(x) = <<y>>

\* C16: init(id) on a module that is initialized returns at once: no
\* instance is created, no hook is called, no lifecycle event is published.
C16_InitIdempotent ==
    (regLast.op = "init" /\ Has(regLast.preInitialized, regLast.id))
    => /\ regLast.done /\ regLast.result = "resolved"
       /\ trace = <<>>
       /\ serial = regLast.preSerial
       /\ instances = regLast.preInstances
       /\ initialized = regLast.preInitialized

\* init(id) has been called on a module that was initialized.
C16_Witness ==
    /\ regLast.op = "init" /\ regLast.done
    /\ Has(regLast.preInitialized, regLast.id)
    /\ instances[regLast.id] # 0

C19_DirectInitFails ==
    (/\ regLast.op = "init" /\ regLast.done
     /\ Registered(Registry, regLast.id)
     /\ FaultOf(regLast.id) # "none"
     /\ \A k \in DOMAIN Deps(regLast.id) : Has(initialized, Deps(regLast.id)[k]))
    => LET id == regLast.id
           error == HookError(id, FaultOf(id))
       IN /\ regLast.result = "rejected" /\ regLast.error = error
          /\ \E i \in DOMAIN trace :
                trace[i].ev = "error" /\ trace[i].id = id /\ trace[i].error = error
          /\ ~\E i \in DOMAIN trace : trace[i].ev = "loaded" /\ trace[i].id = id
          /\ ~Has(initialized, id)

\* init(id) has rejected because the render hook threw, after the init hook
\* had completed.
C19_Witness ==
    /\ regLast.op = "init" /\ regLast.done
    /\ Registered(Registry, regLast.id)
    /\ FaultOf(regLast.id) = "render"
    /\ regLast.result = "rejected"
    /\ \E i \in DOMAIN trace : trace[i].ev = "render" /\ trace[i].id = regLast.id

\* The ids initAll() called init on, in the order of the calls.
InitAllCalls ==
    LET made == SelectSeq(trace, LAMBDA e : e.ev = "call")
    IN [i \in DOMAIN made |-> made[i].id]

\* The position of a registered id in the registration order.
RegistrationIndex(id) == CHOOSE i \in DOMAIN configs : configs[i].id = id

\* The ids module:loaded was published for, in order.
Loaded ==
    LET made == SelectSeq(trace, LAMBDA e : e.ev = "loaded")
    IN [i \in DOMAIN made |-> made[i].id]

\* C20: initAll() calls init on exactly the enabled registered modules, by
\* descending priority and, at equal priority, in registration order; a
\* module is brought up ahead of a module that precedes it in this order
\* only as a dependency of a module that precedes it.
C20_InitAllOrder ==
    (regLast.op = "initAll" /\ regLast.done)
    => LET s == InitAllCalls
       IN /\ {s[i] : i \in DOMAIN s}
                = {id \in Ids : Registered(Registry, id) /\ Enabled(id)}
          /\ \A i, j \in DOMAIN s :
                i < j
                => LET a == getConfig(Registry, s[i])
                       b == getConfig(Registry, s[j])
                   IN \/ a.priority > b.priority
                      \/ /\ a.priority = b.priority
                         /\ RegistrationIndex(s[i]) < RegistrationIndex(s[j])
          /\ \A i, j \in DOMAIN Loaded :
                (i < j /\ IndexIn(s, Loaded[j]) < IndexIn(s, Loaded[i]))
                => \E k \in DOMAIN s :
                      /\ k < IndexIn(s, Loaded[i])
                      /\ DependsOn(s[k], Loaded[i], Cardinality(Ids))

\* initAll() has called init on three modules: the one of higher priority
\* first although registered last, the other two in registration order.
C20_Witness ==
    /\ regLast.op = "initAll" /\ regLast.done
    /\ Len(InitAllCalls) = 3
    /\ getConfig(Registry, InitAllCalls[1]).priority = 1
    /\ RegistrationIndex(InitAllCalls[1]) = 3
    /\ getConfig(Registry, InitAllCalls[2]).priority = 0
    /\ getConfig(Registry, InitAllCalls[3]).priority = 0
    /\ Len(Loaded) = 3

\* Module y can be brought up: it is registered and, if it is enabled, neither
\* its constructor nor a hook of it throws and each module it depends on is
\* initialized or can be brought up in turn, n levels deep.
RECURSIVE Ready(_, _)
Ready(y, n) ==
    /\ n > 0
    /\ Registered(Registry, y)
    /\ Enabled(y)
       => /\ FaultOf(y) = "none"
          /\ \A k \in DOMAIN Deps(y) :
                Has(initialized, Deps(y)[k]) \/ Ready(Deps(y)[k], n - 1)

\* setEnabled(id, false) has returned, called on a module that was
\* initialized: the module is in neither table, and the destroy hook of the
\* instance it had was the last thing called.
C21_TornDown ==
    (/\ regLast.op = "setEnabled" /\ ~regLast.enabled
     /\ regLast.result = "resolved"
     /\ Has(regLast.preInitialized, regLast.id))
    => /\ ~Has(initialized, regLast.id)
       /\ instances[regLast.id] = 0
       /\ (regLast.preInstances[regLast.id] # 0 /\ modules[regLast.id].destroy # "none")
          => /\ trace[Len(trace)].ev = "destroy"
             /\ trace[Len(trace)].id = regLast.id

\* setEnabled(id, true) has returned, called on a registered module that was
\* not initialized and can be brought up.
C21_Started(id) ==
    /\ regLast.op = "setEnabled" /\ regLast.enabled /\ regLast.id = id
    /\ regLast.result = "resolved"
    /\ ~Has(regLast.preInitialized, id)
    /\ Ready(id, Cardinality(Ids))

\* C21: setEnabled(id, false) on an initialized module has called its destroy
\* hook and removed it from the initialized set and the instance table when
\* it returns; after setEnabled(id, true) on a registered module that is not
\* initialized, the module is eventually initialized, provided neither its
\* hooks nor those of the modules it waits for throw.
C21_SetEnabled ==
    /\ []C21_TornDown
    /\ \A id \in FaultIds : [](C21_Started(id) => <>Has(initialized, id))

\* setEnabled(A, true) has brought up A, registered disabled, with the call
\* resumed behind the init hook, and setEnabled(A, false) has then taken it
\* down again.
C21_Witness ==
    /\ regLast.op = "setEnabled" /\ ~regLast.enabled /\ regLast.id = "A"
    /\ Has(regLast.preInitialized, "A")
    /\ ~Has(initialized, "A")
    /\ \E i, j \in DOMAIN trace :
          /\ i < j
          /\ trace[i].ev = "enable" /\ trace[i].id = "A" /\ ~Has(trace[i].initialized, "A")
          /\ trace[j].ev = "loaded" /\ trace[j].id = "A"
    /\ trace[Len(trace)].ev = "destroy"

\* A segment of path p, the last one included, is absent from tree t or
\* holds null there.
AbsentOrNull(t, p) == \E i \in 1..Len(p) : t[SubSeq(p, 1, i)] \in {"absent", "null"}

\* A default no path of the tree holds.
Fallback == [kind |-> "fallback", sub |-> NoSub]

\* C22: get(path, default) returns default whenever a segment of the path,
\* the last one included, is absent or holds null, and the value stored at
\* the path otherwise (a key holding undefined counts as either).
C22_GetDefault ==
    \A p \in PathSet :
        IF AbsentOrNull(state, p) THEN get(state, p, Fallback) = Fallback
        ELSE state[p] # "undef" => get(state, p, Fallback) = ValueAt(state, p)

\* The store as it was before the last operation.
Before ==
    [Machine EXCEPT !.state = last.pre, !.history = last.preHistory,
                    !.historyIndex = last.preIndex, !.subscribers = last.preSubs,
                    !.events = last.preEvents]

\* The last operation made on the store as it was, with a slot that works.
Unfailed ==
    CASE last.op = "set" -> set(Before, last.path, last.value, last.notify, FALSE)
      [] last.op = "batch" -> batchUpdate(Before, last.updates, FALSE)
      [] OTHER -> reset(Before, FALSE)

\* C23: when the slot throws on the read of the construction, on the write
\* of a set or batchUpdate or on the removal of a reset, the operation throws
\* no more than it does with a working slot, and the tree, the history stack,
\* the cursor and the callbacks called are those of the operation with a
\* working slot.
C23_PersistenceNotFatal ==
    /\ (last.op = "none" /\ last.fail) => state = getInitialState
    /\ (last.op \in {"set", "batch", "reset"} /\ last.fail)
       => /\ last.threw = Unfailed.threw
          /\ state = Unfailed.state
          /\ history = Unfailed.history
          /\ historyIndex = Unfailed.historyIndex
          /\ calls = Unfailed.calls

\* C24: the history stack never holds more than maxHistoryLength entries and
\* the cursor lies between -1 and the last entry; after a set that returned
\* the cursor is on the last entry, which is the snapshot the set recorded,
\* and when the entries up to the cursor filled the stack, the oldest was
\* dropped and the cursor stands where it stood.
C24_HistoryBounds ==
    /\ Len(history) <= MaxHistoryLength
    /\ historyIndex >= -1
    /\ historyIndex <= Len(history) - 1
    /\ (last.op = "set" /\ ~last.threw)
       => LET kept == SubSeq(last.preHistory, 1, last.preIndex + 1)
          IN /\ historyIndex = Len(history) - 1
             /\ history[historyIndex + 1] = deepClone(last.pre)
             /\ Len(kept) = MaxHistoryLength
                => /\ history = Append(Tail(kept), deepClone(last.pre))
                   /\ historyIndex = last.preIndex

\* A set made on a full stack with the cursor on its last entry, which
\* dropped an entry that differs from the one that is now the oldest.
C24_Witness ==
    /\ last.op = "set" /\ ~last.threw
    /\ Len(last.preHistory) = MaxHistoryLength
    /\ last.preIndex = MaxHistoryLength - 1
    /\ last.preHistory[1] # history[1]
    /\ Len(history) = MaxHistoryLength

\* C25: historyIndex is -1 while no mutation is applied, and otherwise
\* history[historyIndex] is the snapshot of the tree taken right before the
\* latest mutation (set or batchUpdate) that is applied, the mutations
\* undone and not redone left aside.
C25_CursorOnLastMutation ==
    IF timeline.at = 0 THEN historyIndex = -1
    ELSE /\ historyIndex >= 0
         /\ history[historyIndex + 1] = timeline.snaps[timeline.at]

\* C26: in a batchUpdate each subscriber of a batch path P is called for P
\* with (the value the batch wrote at P, the value P held before the batch
\* started, P).
C26_BatchOldValue ==
    (last.op = "batch" /\ ~last.threw)
    => \A k \in DOMAIN last.updates, cb \in Callbacks :
          \A i \in StoreCalls(last.updates[k].path, cb) :
             calls[i].path = last.updates[k].path
             => /\ calls[i].new = last.updates[k].value
                /\ calls[i].old = get(last.pre, last.updates[k].path, Undefined)

\* The calls of init(id) in flight that have created an instance and are
\* suspended in its init or render hook, as <<call, frame>>.
Suspended(id) ==
    {c \in {<<t, k>> : t \in DOMAIN tasks, k \in 1..MaxStack + 1} :
        /\ c[2] \in DOMAIN tasks[c[1]]
        /\ tasks[c[1]][c[2]].fn = "init"
        /\ tasks[c[1]][c[2]].id = id
        /\ tasks[c[1]][c[2]].pc \in {"awaitInit", "awaitRender"}}

\* C27: while a call of init(id) is suspended in the module's init or render
\* hook, no other call creates an instance of id, and between two destroys
\* of id at most one instance of id is created, an instance whose bring-up
\* failed left aside.
C27_NoDoubleInit ==
    /\ \A id \in Ids : Cardinality(Suspended(id)) <= 1
    /\ \A i, j \in DOMAIN trace :
          (i < j /\ trace[i].ev = "create" /\ trace[j].ev = "create"
                 /\ trace[i].id = trace[j].id)
          => \E k \in (i + 1)..(j - 1) :
                /\ trace[k].ev \in {"destroy", "destroyCall", "reload", "error"}
                /\ trace[k].id = trace[i].id

\* C28: whenever no call of init is in flight, the ids with an entry in the
\* instance table are the initialized ones; in particular get(id) returns no
\* instance after an init(id) that failed.
C28_TablesAgree ==
    /\ tasks = <<>>
       => \A id \in Ids : getInstance(Registry, id) # 0 <=> Has(initialized, id)
    /\ (regLast.op = "init" /\ regLast.done /\ regLast.result = "rejected")
       => getInstance(Registry, regLast.id) = 0

\* C29: at the moment init marks a module initialized, every id listed in
\* its config.dependencies is in the initialized set, also an id that is
\* registered with enabled: false.
C29_DependenciesLive ==
    \A i \in DOMAIN trace :
        (trace[i].ev = "loaded" /\ Registered(Registry, trace[i].id))
        => \A k \in DOMAIN Deps(trace[i].id) :
              Has(trace[i].initialized, Deps(trace[i].id)[k])

\* The last operation returned false and did nothing: the tree, the history
\* stack and the cursor are as before, nothing was written to the slot and
\* no callback of the store or of the event channel was called.
NoOp ==
    /\ ~last.ret /\ ~last.threw
    /\ state = last.pre
    /\ history = last.preHistory
    /\ historyIndex = last.preIndex
    /\ last.persists = 0
    /\ calls = <<>>

\* C30: undo() at historyIndex = -1 and redo() at historyIndex =
\* history.length - 1 return false and are no-ops.
C30_BoundaryNoOp ==
    /\ (last.op = "undo" /\ last.preIndex = -1) => NoOp
    /\ (last.op = "redo" /\ last.preIndex = Len(last.preHistory) - 1) => NoOp

\* undo() at the lower boundary of a stack that holds an entry, with a
\* subscriber on '*' and a callback on the wildcard topic of the channel.
C30_Witness ==
    /\ last.op = "undo" /\ last.preIndex = -1
    /\ last.preHistory # <<>>
    /\ Contains(subscribers[Wild], "f")
    /\ Contains(events[Wild], Plain("f"))
\* C31: a successful undo() or redo() invokes the subscribers of '*' only:
\* no subscriber of a path or of an ancestor of one is called, whatever the
\* snapshot changed beneath it.
C31_MovesNotifyWildcardOnly ==
    (last.op \in {"undo", "redo"} /\ last.ret) =>
        \A i \in DOMAIN calls : calls[i].src = "store" => calls[i].key = Wild

\* An undo or redo that changed ui.theme with a subscriber on it or on ui.
C31_Witness ==
    /\ last.op \in {"undo", "redo"}
    /\ last.ret
    /\ state[<<"ui", "theme">>] # last.pre[<<"ui", "theme">>]
    /\ \E k \in {<<"ui">>, <<"ui", "theme">>} : subscribers[k] # <<>>

\* A successful undo(), redo() or reset().
Moved == last.op \in {"undo", "redo", "reset"} /\ last.ret /\ ~last.threw

\* C32: a successful undo(), redo() or reset() calls each subscriber of '*'
\* exactly once, and an emit calls each callback registered on '*' exactly
\* once, also when the topic published on is '*' itself.
C32_WildcardOnce ==
    /\ Moved =>
          \A cb \in Callbacks :
              Contains(last.preSubs[Wild], cb) => Cardinality(StoreCalls(Wild, cb)) = 1
    /\ (Moved \/ last.op = "emit") =>
          \A e \in Entries(last.preEvents[Wild]) :
              e.w = 0 => Cardinality(BusCalls(Wild, e)) = 1

\* C33: a callback removed with the function subscribe or on returned is
\* not called again through that registration, neither by a later
\* notification or emit nor by the rest of the cascade or emit during which
\* it was removed; and every other registration stays.
C33_RemovedNeverFires ==
    /\ \A i \in DOMAIN calls : calls[i].w = 0 => calls[i].live
    /\ \A k \in SubKeys, cb \in CascadeSubscribers :
          (Contains(last.preSubs[k], cb) /\ <<k, cb>> # <<Wild, "f">>)
              => Contains(subscribers[k], cb)
    /\ \A t \in AllTopics, cb \in CascadeListeners :
          (Contains(last.preEvents[t], Plain(cb)) /\ <<t, cb>> # <<Wild, "f">>)
              => Contains(events[t], Plain(cb))

\* A set whose cascade removed f from '*' before the pass over '*' reached
\* it, and whose mirrored emit did the same on the event channel.
C33_Witness ==
    /\ last.op = "set"
    /\ last.preSubs[Wild] = <<"drop", "f">>
    /\ StoreCalls(Wild, "drop") # {}
    /\ StoreCalls(Wild, "f") = {}
    /\ Contains(last.preEvents[StateTopic(<<"ui", "theme">>)], Plain("unsub"))
    /\ Contains(last.preEvents[Wild], Plain("f"))
    /\ BusCalls(StateTopic(<<"ui", "theme">>), Plain("unsub")) # {}
    /\ BusCalls(Wild, Plain("f")) = {}

\* The paths the last operation wrote, in the order it notified them.
Written ==
    IF last.op = "set" THEN <<last.path>>
    ELSE [k \in DOMAIN last.updates |-> last.updates[k].path]

\* The keys whose subscribers the cascade for path p calls.
CascadeOf(p) == {k \in SubKeys : k = p \/ IsStrictPrefix(k, p) \/ k = Wild}

\* The last operation called the subscriber cb, or the channel callback cb.
Ran(cb) == \E i \in DOMAIN calls : calls[i].cb = cb

\* C34: when a subscriber throws during set or batchUpdate, the call does
\* not throw, the value written stays in the tree, the history entry made for
\* the write stays on top of the stack, every other subscriber of the cascade
\* is called and the mirrored event reaches the callbacks registered for it.
\* (A subscriber that writes, or a callback removed by another one, aside;
\* a later entry of a batch may write at, above or beneath the path of an
\* earlier one.)
C34_ThrowKeepsWrite ==
    (last.op \in {"set", "batch"} /\ \E i \in DOMAIN calls : calls[i].src = "store" /\ calls[i].threw)
    => /\ ~last.threw
       /\ ~Ran("write") =>
             /\ last.op = "set" => ValueAt(state, last.path) = last.value
             /\ last.op = "batch" =>
                   \A k \in DOMAIN last.updates :
                       \/ ValueAt(state, last.updates[k].path) = last.updates[k].value
                       \/ /\ state[last.updates[k].path] = last.updates[k].value.kind
                          /\ \E j \in DOMAIN last.updates :
                                /\ j > k
                                /\ IsStrictPrefix(last.updates[k].path, last.updates[j].path)
                       \/ \E j \in DOMAIN last.updates :
                             /\ j > k
                             /\ \/ last.updates[j].path = last.updates[k].path
                                \/ IsStrictPrefix(last.updates[j].path, last.updates[k].path)
             /\ historyIndex = Len(history) - 1
             /\ history[Len(history)] = deepClone(last.pre)
       /\ \A j \in DOMAIN Written :
             /\ \A k \in CascadeOf(Written[j]), cb \in CascadeSubscribers :
                   (Contains(last.preSubs[k], cb) /\ ~(Ran("drop") /\ <<k, cb>> = <<Wild, "f">>))
                       => \E i \in StoreCalls(k, cb) : calls[i].path = Written[j]
             /\ \A t \in {StateTopic(Written[j]), Wild}, cb \in CascadeListeners :
                   (Contains(last.preEvents[t], Plain(cb))
                        /\ ~(Ran("unsub") /\ <<t, cb>> = <<Wild, "f">>))
                       => \E i \in BusCalls(t, Plain(cb)) : calls[i].path = StateTopic(Written[j])

\* A set whose first subscriber threw, with a subscriber called after it and
\* a callback registered for the mirrored event.
C34_Witness ==
    /\ last.op = "set"
    /\ ~last.threw
    /\ \E i, j, k \in DOMAIN calls :
          /\ i < j /\ j < k
          /\ calls[i].src = "store" /\ calls[i].threw
          /\ calls[j].src = "store" /\ calls[j].cb = "f"
          /\ calls[k].src = "bus" /\ calls[k].key = StateTopic(last.path)
    /\ ValueAt(state, last.path) = last.value
    /\ ValueAt(last.pre, last.path) # last.value

\* C35: the entries of the history are objects of their own, each the
\* clone of the tree as it was before the mutation it precedes: none is the
\* object this.state refers to, and none has changed since it was pushed,
\* whatever set, batchUpdate and undo did since, from a subscriber's call
\* included.
C35_SnapshotsIndependent ==
    /\ copies.alias = 0
    /\ history = copies.taken
    /\ (last.op \in {"set", "batch"} /\ ~last.threw /\ ~Ran("write"))
          => history[Len(history)] = deepClone(last.pre)
    /\ (last.op = "set" /\ ~last.threw
            /\ Cardinality({i \in DOMAIN calls : calls[i].cb = "write"}) = 1
            /\ last.preIndex + 3 <= MaxHistoryLength)
          => history[Len(history) - 1] = deepClone(last.pre)

\* A set during whose cascade a subscriber wrote to the store: the entry of
\* the outer set lies under the entry of the inner one and still holds the
\* tree from before the outer set.
C35_Witness ==
    /\ last.op = "set"
    /\ Ran("write")
    /\ Len(history) = MaxHistoryLength
    /\ history[1] = deepClone(last.pre)
    /\ history[2] # history[1]
    /\ state # history[2]

\* C36: reset() returns with the tree of getInitialState(), an empty history
\* and the cursor at -1, so that undo() and redo() return false; the slot
\* holds no saved copy and every subscriber of '*' has been called.
C36_Reset ==
    last.op = "reset"
    => /\ ~last.threw
       /\ state = getInitialState
       /\ history = <<>> /\ historyIndex = -1
       /\ ~undo(Machine).ret /\ ~redo(Machine).ret
       /\ storage = NoSlot
       /\ \A cb \in Callbacks :
             Contains(last.preSubs[Wild], cb) => StoreCalls(Wild, cb) # {}

\* The calls made of the channel callback cb registered on `topic` by the
\* publish that follows the store call i in its cascade.
Mirrored(i, topic, cb) ==
    {j \in BusCalls(topic, Plain(cb)) :
        /\ j > i
        /\ calls[j].pass = calls[i].pass
        /\ calls[j].path = StateTopic(calls[i].path)}

\* C37: a subscriber notified in the cascade for changedPath is followed by
\* a publish on 'state:' + changedPath, which reaches the callbacks
\* registered on that topic with { newValue, oldValue, path } as the cascade
\* was given them; set with notify = false calls no subscriber and no channel
\* callback, and records history and persists as any set does.
C37_MirroredEvents ==
    /\ \A i \in DOMAIN calls :
          calls[i].src = "store" =>
              \A cb \in CascadeListeners :
                  Contains(last.preEvents[StateTopic(calls[i].path)], Plain(cb)) =>
                      \E j \in Mirrored(i, StateTopic(calls[i].path), cb) :
                          /\ calls[j].payload.tag = "state"
                          /\ calls[j].payload.path = calls[i].path
                          /\ calls[i].key \in {calls[i].path, Wild}
                                => calls[j].payload.oldValue = calls[i].old
                          /\ calls[i].key = calls[i].path
                                => calls[j].payload.newValue = calls[i].new
                          /\ last.op = "set" =>
                                calls[j].payload =
                                    StatePayload(last.value, ValueAt(last.pre, last.path),
                                                 last.path)
    /\ (last.op = "set" /\ ~last.notify /\ ~last.threw)
          => /\ calls = <<>>
             /\ ValueAt(state, last.path) = last.value
             /\ historyIndex = Len(history) - 1
             /\ history[Len(history)] = deepClone(last.pre)
             /\ last.persists = 1
             /\ storage = [saved |-> TRUE, ui |-> Serialize(ValueAt(state, <<"ui">>))]

\* A set that changed ui.theme and notified a subscriber of it and one of
\* '*', with a callback registered on state:ui.theme.
C37_Witness ==
    /\ last.op = "set"
    /\ last.notify
    /\ ValueAt(last.pre, last.path) # last.value
    /\ \E i, j \in DOMAIN calls :
          /\ calls[i].src = "store" /\ calls[i].key = last.path
          /\ calls[j].src = "store" /\ calls[j].key = Wild
    /\ \E k \in DOMAIN calls : calls[k].src = "bus" /\ calls[k].key = StateTopic(last.path)

\* C38: in every reachable state each module in the initialized set is
\* enabled in its config, whatever updateConfig and setEnabled were called
\* with, and whenever: on a live module, or on one whose init is suspended
\* in a hook.
C38_EnabledInvariant ==
    \A id \in FaultIds : Has(initialized, id) => Enabled(id)

\* C39: a destroy(id) that returns has called the destroy hook of the
\* instance if it has one, id is in neither the initialized set nor the
\* instance table, and every other module is as it was, those that depend on
\* id included; an init of the module after that, as reload makes it, creates
\* an instance that did not exist before.
C39_DestroyFrame ==
    /\ (regLast.op = "destroy" /\ regLast.result = "resolved")
          => /\ ~Has(initialized, regLast.id)
             /\ getInstance(Registry, regLast.id) = 0
             /\ (regLast.preInstances[regLast.id] # 0 /\ modules[regLast.id].destroy # "none")
                   => /\ trace[Len(trace)].ev = "destroy"
                      /\ trace[Len(trace)].id = regLast.id
             /\ (regLast.preInstances[regLast.id] = 0 \/ modules[regLast.id].destroy = "none")
                   => trace[Len(trace)].ev = "destroyCall"
             /\ \A x \in Ids \ {regLast.id} :
                   /\ getInstance(Registry, x) = regLast.preInstances[x]
                   /\ Has(initialized, x) <=> Has(regLast.preInitialized, x)
    /\ (/\ regLast.op \in {"init", "reload"}
        /\ regLast.result # "rejected"
        /\ Registered(Registry, regLast.id)
        /\ Enabled(regLast.id)
        /\ regLast.op = "init" => ~Has(regLast.preInitialized, regLast.id)
        /\ \A i \in DOMAIN Deps(regLast.id) :
               Has(regLast.preInitialized, Deps(regLast.id)[i]))
          => /\ getInstance(Registry, regLast.id) = regLast.preSerial + 1
             /\ \A x \in Ids : regLast.preInstances[x] # getInstance(Registry, regLast.id)

\* A is destroyed while B, which lists A as a dependency, is initialized:
\* the hook of A has run and B is still up with its instance.
C39_Witness ==
    /\ regLast.op = "destroy" /\ regLast.result = "resolved"
    /\ regLast.id = "A"
    /\ regLast.preInstances["A"] # 0
    /\ Has(regLast.preInitialized, "A")
    /\ modules["A"].destroy = "ok"
    /\ Registered(Registry, "B") /\ Deps("B") = <<"A">>
    /\ Has(initialized, "B") /\ getInstance(Registry, "B") # 0

====
